---- MODULE Spec2Model ----
(***************************************************************************)
(* Session orchestration controller of llm-council (hook useCouncil):      *)
(* startCouncil, loadSession, startNewChat and the presentation guards     *)
(* that gate them, against a model of the remote council service.          *)
(*                                                                         *)
(* One action is one run of JavaScript between two awaits: the code that   *)
(* follows an await runs as a microtask when the awaited promise settles,  *)
(* before any other timer, network or user event.                          *)
(***************************************************************************)
EXTENDS Integers, Sequences, FiniteSets, TLC

(* ---------------------------- bounds ----------------------------------- *)
MaxSubmits == 2
MaxLoads == 2
MaxSessions == 3
MaxChat == 3
TickMs == 1000
MaxOps == 2
MaxFolders == 2
MaxRounds == 2
MaxClock == 2
MaxModels == 3
MaxSaved == 2
MaxIncognito == 2
MaxIssues == 2

(* ----------------------- program constants ----------------------------- *)
minLoadingTime == 2000
LoadTimeoutMs == 30000
RevealDelayMs == 400

Tasks == 1..MaxSubmits
Loads == 1..MaxLoads
Ids == 1..MaxSessions
NoId == 0
Ops == 1..MaxOps
FolderIds == 1..MaxFolders
NoFolder == 0
ModelIds == 1..MaxModels
StaleModelId == 0
NoTimer == -1
Null == "null"
Undefined == "undefined"
Modes == {"formal", "chat"}
Questions == {"", " ", "q"}

TimeoutMessage == "The server is taking too long to respond. Please try again later."
GenericMessage == "Something went wrong. Please check again later."
ServiceDetail == "detail"
NetworkErrorMessage == "Network Error"

(* String.prototype.trim on the modelled question values *)
Trim(s) == IF s = " " THEN "" ELSE s

Max(a, b) == IF a > b THEN a ELSE b

Last(s) == s[Len(s)]

ReplaceLast(s, x) == [s EXCEPT ![Len(s)] = x]

(* ----------------------- display messages ------------------------------ *)
Msg(type, content, modelName) ==
  [type |-> type, content |-> content, modelName |-> modelName]

(* addMessage(type, content, modelName = null): the entry it appends *)
addMessage(prev, type, content, modelName) ==
  Append(prev, Msg(type, content, modelName))

GatheringText == "Gathering responses from the council..."
DecidingText == "Chairman Grok is reviewing all responses..."
ChairmanName == "Grok 4.1 Fast (Chairman)"

(* ------------------- remote council service documents ------------------ *)
ChatContents == <<"c1", "c2", "c3", "c4">>
ChatModels == <<"m1", "m2", "m3", "m4">>

ChatMessage(i) ==
  [model_name |-> ChatModels[i], content |-> ChatContents[i],
   reply_to |-> IF i > 1 THEN ChatModels[i - 1] ELSE Null,
   response_time_ms |-> 10 * i]

ChatBatch(n) == [i \in 1..n |-> ChatMessage(i)]

OkResponse ==
  [model_id |-> "a", model_name |-> "m1", response |-> "r1", error |-> "",
   response_time_ms |-> 10]
ErrResponse ==
  [model_id |-> "b", model_name |-> "m2", response |-> "", error |-> "e2",
   response_time_ms |-> 20]
ResponseBatches == {<<OkResponse>>, <<OkResponse, ErrResponse>>}

NewRound(q, m) ==
  [question |-> q, mode |-> m, chat_messages |-> <<>>, responses |-> <<>>,
   peer_reviews |-> <<>>, disagreement_analysis |-> <<>>,
   final_synthesis |-> ""]

FormalRoundDone ==
  [NewRound("q", "formal") EXCEPT !.responses = <<OkResponse>>,
                                  !.peer_reviews = <<"rev">>,
                                  !.final_synthesis = "syn"]

ChatRoundDone == [NewRound("q", "chat") EXCEPT !.chat_messages = ChatBatch(1)]

(* ------------------------- message projector --------------------------- *)
RECURSIVE ChatEntries(_)
ChatEntries(cms) ==
  IF cms = <<>> THEN <<>>
  ELSE <<Msg("chat", Head(cms).content, Head(cms).model_name)>>
         \o ChatEntries(Tail(cms))

RECURSIVE ResponseEntries(_)
ResponseEntries(rs) ==
  IF rs = <<>> THEN <<>>
  ELSE <<IF Head(rs).error # ""
           THEN Msg("error", "Error: " \o Head(rs).error, Head(rs).model_name)
           ELSE Msg("council", Head(rs).response, Head(rs).model_name)>>
         \o ResponseEntries(Tail(rs))

roundToMessages(round) ==
  LET user == <<Msg("user", round.question, Undefined)>>
  IN IF round.mode = "chat" /\ Len(round.chat_messages) > 0
       THEN user \o ChatEntries(round.chat_messages)
       ELSE user
            \o (IF Len(round.responses) > 0
                  THEN <<Msg("system", GatheringText, Undefined)>>
                       \o ResponseEntries(round.responses)
                       \o (IF Len(round.peer_reviews) > 0
                             THEN <<Msg("voting", Undefined, Undefined)>>
                             ELSE <<>>)
                  ELSE <<>>)
            \o (IF round.final_synthesis # ""
                  THEN <<Msg("system", DecidingText, Undefined),
                         Msg("chairman", round.final_synthesis, ChairmanName)>>
                  ELSE <<>>)

RECURSIVE loadedMessages(_)
loadedMessages(rounds) ==
  IF rounds = <<>> THEN <<>>
  ELSE roundToMessages(Head(rounds)) \o loadedMessages(Tail(rounds))

(* ------------- message projector: the display messages in full --------- *)
(* roundToMessages and loadedMessages above keep the type, content and     *)
(* model name of each entry, which is what the transcript of the           *)
(* controller is compared on; roundToMessagesAt builds every field, with t *)
(* the value new Date() returns during the invocation.                     *)
NoDisagreement == [none |-> TRUE]

(* mutant: the annotation is taken by position, not by model id *)
disagreementMapFirst(analysis, model_id) ==
  IF analysis = <<>> THEN NoDisagreement ELSE analysis[1]

(* disagreementMap[resp.model_id] || null; the map is filled in list order, *)
(* so a later item of the same model id replaces an earlier one             *)
RECURSIVE disagreementMap(_, _)
disagreementMap(analysis, model_id) ==
  IF analysis = <<>> THEN NoDisagreement
  ELSE IF Last(analysis).model_id = model_id THEN Last(analysis)
  ELSE disagreementMap(SubSeq(analysis, 1, Len(analysis) - 1), model_id)

RECURSIVE ChatDisplay(_, _)
ChatDisplay(cms, t) ==
  IF cms = <<>> THEN <<>>
  ELSE <<[type |-> "chat", content |-> Head(cms).content,
          modelName |-> Head(cms).model_name, replyTo |-> Head(cms).reply_to,
          responseTime |-> Head(cms).response_time_ms, timestamp |-> t]>>
         \o ChatDisplay(Tail(cms), t)

RECURSIVE ResponseDisplay(_, _, _)
ResponseDisplay(rs, analysis, t) ==
  IF rs = <<>> THEN <<>>
  ELSE <<IF Head(rs).error # ""
           THEN [type |-> "error", content |-> "Error: " \o Head(rs).error,
                 modelName |-> Head(rs).model_name, timestamp |-> t]
           ELSE [type |-> "council", content |-> Head(rs).response,
                 modelName |-> Head(rs).model_name,
                 responseTime |-> Head(rs).response_time_ms, timestamp |-> t,
                 disagreement |->
                   disagreementMap(analysis, Head(rs).model_id)]>>
         \o ResponseDisplay(Tail(rs), analysis, t)

VotingEntry(round, t) ==
  [type |-> "voting", peerReviews |-> round.peer_reviews,
   responses |-> round.responses,
   disagreementAnalysis |-> round.disagreement_analysis, timestamp |-> t]

(* mutant: the voting entry is pushed whether or not there are reviews *)
VotingDisplayAlways(round, t) == <<VotingEntry(round, t)>>

(* lines 276-285: the voting entry, inside the block of the responses *)
VotingDisplay(round, t) ==
  IF Len(round.peer_reviews) > 0 THEN <<VotingEntry(round, t)>> ELSE <<>>

roundToMessagesAt(round, t) ==
  LET user == <<[type |-> "user", content |-> round.question, timestamp |-> t]>>
  IN IF round.mode = "chat" /\ Len(round.chat_messages) > 0
       THEN user \o ChatDisplay(round.chat_messages, t)
       ELSE user
            \o (IF Len(round.responses) > 0
                  THEN <<[type |-> "system", content |-> GatheringText,
                          timestamp |-> t]>>
                       \o ResponseDisplay(round.responses,
                                          round.disagreement_analysis, t)
                       \o VotingDisplay(round, t)
                  ELSE <<>>)
            \o (IF round.final_synthesis # ""
                  THEN <<[type |-> "system", content |-> DecidingText,
                          timestamp |-> t],
                         [type |-> "chairman",
                          content |-> round.final_synthesis,
                          modelName |-> ChairmanName, timestamp |-> t]>>
                  ELSE <<>>)

(* mutant: the rounds are folded newest first *)
RECURSIVE loadMessagesFromSessionReversed(_, _)
loadMessagesFromSessionReversed(session, t) ==
  IF session.rounds = <<>> THEN <<>>
  ELSE loadMessagesFromSessionReversed([rounds |-> Tail(session.rounds)], t)
         \o roundToMessagesAt(Head(session.rounds), t)

RECURSIVE loadMessagesFromSession(_, _)
loadMessagesFromSession(session, t) ==
  IF session.rounds = <<>> THEN <<>>
  ELSE roundToMessagesAt(Head(session.rounds), t)
         \o loadMessagesFromSession([rounds |-> Tail(session.rounds)], t)

(* ---------------- documents the projector is applied to ---------------- *)
ProjQuestions == <<"q1", "q2", "q3", "q4">>

Response(id, error) ==
  [model_id |-> id, model_name |-> "name-" \o id,
   response |-> IF error THEN "" ELSE "r-" \o id,
   error |-> IF error THEN "e-" \o id ELSE "",
   response_time_ms |-> 10]

Analysis(id) == [model_id |-> id, note |-> "d-" \o id]

ResponseLists ==
  {<<Response("a", FALSE)>>,
   <<Response("a", FALSE), Response("b", TRUE), Response("c", FALSE)>>}

AnalysisLists == {<<>>, <<Analysis("c")>>, <<Analysis("c"), Analysis("a")>>}

(* the rounds of the formal protocol: Created, then ResponsesGathered,     *)
(* Reviewed and Synthesized, each keeping what the phase before it stored  *)
FormalRounds ==
  {NewRound("q", "formal")}
    \cup {[NewRound("q", "formal") EXCEPT !.responses = rs,
                                          !.peer_reviews = pr,
                                          !.disagreement_analysis = da,
                                          !.final_synthesis = fs] :
            rs \in ResponseLists, pr \in {<<>>, <<"rev">>},
            da \in AnalysisLists, fs \in {"", "syn"}}

(* rounds of mode chat, with and without payload in their other fields *)
ChatRounds ==
  {[NewRound("q", "chat") EXCEPT !.chat_messages = cm, !.responses = rs,
                                 !.final_synthesis = fs] :
     cm \in {<<>>, ChatBatch(2)}, rs \in {<<>>, <<Response("a", FALSE)>>},
     fs \in {"", "syn"}}

RoundDocs == FormalRounds \cup ChatRounds

(* the i-th round of a session asks the i-th question *)
SessionDocs ==
  UNION {{[rounds |-> [i \in 1..n |->
                        [rs[i] EXCEPT !.question = ProjQuestions[i]]]] :
            rs \in [1..n -> RoundDocs]} : n \in 0..MaxRounds}

(* ------------------------------ state ---------------------------------- *)
VARIABLES
  question,          \* useState('') : text of the input box
  messages,          \* useState([]) : the transcript
  loading,           \* useState(false)
  currentStep,       \* useState('')
  sessionId,         \* useState(null) : NoId is null
  sessions,          \* useState([]) : ids of the catalog last fetched
  sidebarOpen,       \* useState(false)
  sessionLoadError,  \* useState(null)
  isLoadingSession,  \* useState(false)
  mode,              \* useState(localStorage mode || 'formal')
  council,           \* the startCouncil invocations and their locals
  loads,             \* the loadSession invocations and their locals
  srv,               \* remote service: session id -> its rounds (<<>>: none)
  torn,              \* history: where each invocation stood when startNewChat() last ran
  ops,               \* the metadata operation invocations and their locals
  catalog,           \* remote service: session id -> title, pin flag, folder, share
  srvFolders,        \* remote service: the folder ids that exist
  folders,           \* useState([]) : ids of the folder list last fetched
  errorModal,        \* App: useState({ open: false, ... }).open
  doc,               \* projector input: a session document (its rounds)
  now,               \* the wall clock that new Date() reads
  projected,         \* result of the last projector invocation on doc
  availableModels,   \* useState([])
  selectedModels,    \* useState(localStorage selection || [])
  storedModels,      \* localStorage 'llm-council-selected-models'
  modelsFetch,       \* the GET /models call of fetchModels: idle, pending, done,
                     \* failed
  lastToggle,        \* history: the toggleModel call that ran last, if no other
                     \* operation of the store ran since
  selectAlls,        \* history: the selectAllModels calls in a row (counted up
                     \* to two) since the catalog or a checkbox changed, and the
                     \* selection the last of them found
  incognito,         \* IncognitoChat: its state, the position of handleSubmit,
                     \* the calls it issued and the error detail it last caught
  ephemeral          \* remote service: the ephemeral sessions created and those
                     \* still alive

metaVars == <<ops, catalog, srvFolders, folders, errorModal>>

projVars == <<doc, now, projected>>

modelVars ==
  <<availableModels, selectedModels, storedModels, modelsFetch, lastToggle,
    selectAlls>>

incVars == <<incognito, ephemeral>>

others == <<metaVars, projVars, modelVars, incVars>>

controllerVars ==
  <<question, messages, loading, currentStep, sessionId, sessions,
    sidebarOpen, sessionLoadError, isLoadingSession, mode, council, loads,
    srv, torn>>

vars == <<question, messages, loading, currentStep, sessionId, sessions,
          sidebarOpen, sessionLoadError, isLoadingSession, mode, council,
          loads, srv, torn, others>>

(* error.response?.data?.detail of a rejected call: absent (no response), a *)
(* plain string, a list of issue objects or a single object; an object is   *)
(* its msg field ("" when it has none) and its JSON serialization           *)
NoDetail == [shape |-> "none"]

Issue(i) == [msg |-> "issue" \o ToString(i), json |-> "{msg" \o ToString(i) \o "}"]

IssueNoMsg == [msg |-> "", json |-> "{loc}"]

Issues == {Issue(i) : i \in 1..MaxIssues} \cup {IssueNoMsg}

(* no response at all, or a response whose detail is a plain string *)
TextDetails == {NoDetail, [shape |-> "string", text |-> ServiceDetail]}

Details ==
  TextDetails
    \cup {[shape |-> "list", items |-> v] :
            v \in UNION {[1..n -> Issues] : n \in 1..MaxIssues}}
    \cup {[shape |-> "object", obj |-> o] : o \in Issues}

IdleTask ==
  [pc |-> "idle", userQuestion |-> "", sid |-> NoId, localMode |-> "formal",
   activeMode |-> "formal", batch |-> <<>>, shown |-> 0, timer |-> NoTimer,
   calls |-> <<>>, failed |-> FALSE, caught |-> NoDetail]

NoError == [message |-> "", detail |-> ""]

(* elapsed is Date.now() - startTime while the invocation runs; deadline    *)
(* and floor are the times left on its two timers; net is the state of the  *)
(* get-session promise and first is what settled Promise.race               *)
IdleLoad ==
  [pc |-> "idle", id |-> NoId, elapsed |-> 0, deadline |-> NoTimer,
   floor |-> NoTimer, net |-> "none", first |-> "none", error |-> NoError,
   loaded |-> <<>>, calls |-> <<>>]

(* a metadata operation: op names it, id is its target, active the        *)
(* sessionId state its closure captured, newPinned the flag togglePinSession *)
(* computed, outcome how its promise settled                                *)
IdleOp ==
  [pc |-> "idle", op |-> "", id |-> NoId, arg |-> NoFolder, active |-> NoId,
   newPinned |-> FALSE, calls |-> <<>>, outcome |-> "none", failed |-> FALSE]

CatalogEntry(folder) ==
  [title |-> "t", is_pinned |-> FALSE, folder_id |-> folder,
   shared |-> FALSE, deleted |-> FALSE]

NotProjected == [done |-> FALSE, round |-> 0, msgs |-> <<>>]

NothingStored == [present |-> FALSE, value |-> <<>>]

NoToggle == [called |-> FALSE, modelId |-> StaleModelId, prev |-> <<>>]

NoSelectAll == [count |-> 0, prev |-> <<>>]

(* the IncognitoChat component before the modal is first opened; detail is  *)
(* history: the detail of the failure handleSubmit caught last; cleared is  *)
(* history: the transcript was emptied while the reveal loop of the         *)
(* submission that runs was waiting on its timer                            *)
ClosedIncognito ==
  [open |-> FALSE, pc |-> "idle", question |-> "", messages |-> <<>>,
   loading |-> FALSE, currentStep |-> "", sessionId |-> NoId,
   pending |-> <<>>, next |-> 0, calls |-> <<>>, submits |-> 0,
   detail |-> NoDetail, cleared |-> FALSE]

InitController ==
  /\ question = ""
  /\ messages = <<>>
  /\ loading = FALSE
  /\ currentStep = ""
  /\ sessionId = NoId
  /\ sidebarOpen = FALSE
  /\ sessionLoadError = Null
  /\ isLoadingSession = FALSE
  /\ council = [t \in Tasks |-> IdleTask]
  /\ loads = [l \in Loads |-> IdleLoad]
  /\ srv = [i \in Ids |-> IF i = 1 THEN <<FormalRoundDone>>
                          ELSE IF i = 2 THEN <<ChatRoundDone>> ELSE <<>>]
  /\ torn = [t \in Tasks |-> ""]

InitMeta ==
  /\ ops = [o \in Ops |-> IdleOp]
  /\ catalog = [i \in Ids |-> CatalogEntry(IF i = 2 THEN 1 ELSE NoFolder)]
  /\ srvFolders = {1}
  /\ errorModal = FALSE

InitIncognito ==
  /\ incognito = ClosedIncognito
  /\ ephemeral = [created |-> 0, alive |-> {}]

InitProjector ==
  /\ doc = [rounds |-> <<>>]
  /\ now = 0
  /\ projected = NotProjected

InitModels ==
  /\ availableModels = <<>>
  /\ selectedModels = <<>>
  /\ storedModels = NothingStored
  /\ modelsFetch = "idle"
  /\ lastToggle = NoToggle
  /\ selectAlls = NoSelectAll

Init ==
  /\ InitController
  /\ mode \in Modes
  /\ sessions = {}
  /\ folders = {}
  /\ InitMeta
  /\ InitIncognito
  /\ InitProjector
  /\ InitModels

Call(op, sid) == [op |-> op, sid |-> sid]

InFlight(t) == council[t].pc \notin {"idle", "done"}

(* the ids the service has handed out, and those not deleted since *)
Used == {i \in Ids : srv[i] # <<>>}

Existing == {i \in Used : ~catalog[i].deleted}

(* one entry of the list-sessions response *)
Summary(i) ==
  [id |-> i, title |-> catalog[i].title, is_pinned |-> catalog[i].is_pinned,
   folder_id |-> catalog[i].folder_id]

ListSessions == {Summary(i) : i \in Existing}

(* ------------------------- presentation guards ------------------------- *)
(* App renders the ChatInput only when no session is loading and no load   *)
(* error is shown; WelcomeScreen and ChatMessages pass disabled={loading}. *)
InputRendered == ~isLoadingSession /\ sessionLoadError = Null

ChatInputDisabled == loading

(* ChatInput.handleKeyDown / send button: value.trim() && !disabled *)
ChatInputAccepts == Trim(question) # "" /\ ~ChatInputDisabled

(* textarea onChange -> setQuestion *)
SetQuestion(v) ==
  /\ InputRendered
  /\ ~ChatInputDisabled
  /\ v # question
  /\ question' = v
  /\ UNCHANGED <<messages, loading, currentStep, sessionId, sessions,
                 sidebarOpen, sessionLoadError, isLoadingSession, mode,
                 council, loads, srv, torn, others>>

(* Settings onModeChange -> setMode *)
SetMode(m) ==
  /\ m # mode
  /\ mode' = m
  /\ UNCHANGED <<question, messages, loading, currentStep, sessionId,
                 sessions, sidebarOpen, sessionLoadError, isLoadingSession,
                 council, loads, srv, torn, others>>

toggleSidebar ==
  /\ sidebarOpen' = ~sidebarOpen
  /\ UNCHANGED <<question, messages, loading, currentStep, sessionId,
                 sessions, sessionLoadError, isLoadingSession, mode,
                 council, loads, srv, torn, others>>

(* ------------------------------ startCouncil --------------------------- *)
(* mutant: the user entry is appended without clearing the input field *)
startCouncilKeepsQuestion(t) ==
  /\ InputRendered
  /\ ChatInputAccepts
  /\ council[t].pc = "idle"
  /\ \A u \in Tasks : u < t => council[u].pc # "idle"
  /\ Trim(question) # ""
  /\ question' = question
  /\ loading' = TRUE
  /\ messages' = addMessage(messages, "user", question, Null)
  /\ IF sessionId # NoId
       THEN /\ currentStep' = "Continuing conversation..."
            /\ council' = [council EXCEPT ![t] =
                 [@ EXCEPT !.pc = "awaitContinue", !.userQuestion = question,
                           !.sid = sessionId, !.localMode = mode,
                           !.activeMode = mode,
                           !.calls = <<Call("continue", sessionId)>>]]
       ELSE /\ currentStep' = "Creating session..."
            /\ council' = [council EXCEPT ![t] =
                 [@ EXCEPT !.pc = "awaitCreate", !.userQuestion = question,
                           !.sid = NoId, !.localMode = mode,
                           !.activeMode = mode,
                           !.calls = <<Call("create", NoId)>>]]
  /\ UNCHANGED <<sessionId, sessions, sidebarOpen, sessionLoadError,
                 isLoadingSession, mode, loads, srv, torn, others>>

(* ChatInput.onSubmit -> startCouncil, up to its first await *)
startCouncil(t) ==
  /\ InputRendered
  /\ ChatInputAccepts
  /\ council[t].pc = "idle"
  /\ \A u \in Tasks : u < t => council[u].pc # "idle"
  /\ Trim(question) # ""
  /\ question' = ""
  /\ loading' = TRUE
  /\ messages' = addMessage(messages, "user", question, Null)
  /\ IF sessionId # NoId
       THEN /\ currentStep' = "Continuing conversation..."
            /\ council' = [council EXCEPT ![t] =
                 [@ EXCEPT !.pc = "awaitContinue", !.userQuestion = question,
                           !.sid = sessionId, !.localMode = mode,
                           !.activeMode = mode,
                           !.calls = <<Call("continue", sessionId)>>]]
       ELSE /\ currentStep' = "Creating session..."
            /\ council' = [council EXCEPT ![t] =
                 [@ EXCEPT !.pc = "awaitCreate", !.userQuestion = question,
                           !.sid = NoId, !.localMode = mode,
                           !.activeMode = mode,
                           !.calls = <<Call("create", NoId)>>]]
  /\ UNCHANGED <<sessionId, sessions, sidebarOpen, sessionLoadError,
                 isLoadingSession, mode, loads, srv, torn, others>>

(* mutant: the local preference is used on the continue path too *)
InheritedModeLocal(session, localMode) == localMode

(* session.rounds[0]?.mode || mode *)
InheritedMode(session, localMode) ==
  IF Len(session) > 0 /\ session[1].mode # "" THEN session[1].mode
  ELSE localMode

(* mutant: the calls target the sessionId state of the last render instead *)
(* of the local currentSessionId                                           *)
BeginProtocolStale(t, sid, activeMode, task) ==
  IF activeMode = "chat"
    THEN /\ currentStep' = "Models are typing..."
         /\ messages' = messages
         /\ council' = [council EXCEPT ![t] =
              [task EXCEPT !.pc = "awaitRunAll",
                           !.calls = Append(@, Call("run-all", sessionId))]]
    ELSE /\ currentStep' = "Council is thinking..."
         /\ messages' = addMessage(messages, "system", GatheringText, Null)
         /\ council' = [council EXCEPT ![t] =
              [task EXCEPT !.pc = "awaitResponses",
                           !.calls = Append(@, Call("responses", sessionId))]]

(* lines 350-383: the branch on activeMode up to the next await *)
BeginProtocol(t, sid, activeMode, task) ==
  IF activeMode = "chat"
    THEN /\ currentStep' = "Models are typing..."
         /\ messages' = messages
         /\ council' = [council EXCEPT ![t] =
              [task EXCEPT !.pc = "awaitRunAll",
                           !.calls = Append(@, Call("run-all", sid))]]
    ELSE /\ currentStep' = "Council is thinking..."
         /\ messages' = addMessage(messages, "system", GatheringText, Null)
         /\ council' = [council EXCEPT ![t] =
              [task EXCEPT !.pc = "awaitResponses",
                           !.calls = Append(@, Call("responses", sid))]]

(* continue-session: the service appends a round that inherits the mode of *)
(* the session's first round                                               *)
SrvContinue(sid, q) ==
  [srv EXCEPT ![sid] = Append(@, NewRound(q, srv[sid][1].mode))]

ContinueOk(t) ==
  /\ council[t].pc = "awaitContinue"
  /\ council[t].sid \in Existing
  /\ srv' = SrvContinue(council[t].sid, council[t].userQuestion)
  /\ LET session == srv'[council[t].sid]
         activeMode == InheritedMode(session, council[t].localMode)
     IN BeginProtocol(t, council[t].sid, activeMode,
                      [council[t] EXCEPT !.activeMode = activeMode])
  /\ UNCHANGED <<question, loading, sessionId, sessions, sidebarOpen,
                 sessionLoadError, isLoadingSession, mode, loads, torn, others>>

(* create-session(question, mode, selected_model_ids) *)
SrvCreate(id, q, m) == [srv EXCEPT ![id] = <<NewRound(q, m)>>]

FreshId == CHOOSE i \in Ids \ Used : \A j \in Ids \ Used : i <= j

CreateOk(t) ==
  /\ council[t].pc = "awaitCreate"
  /\ Used # Ids
  /\ srv' = SrvCreate(FreshId, council[t].userQuestion, council[t].localMode)
  /\ sessionId' = FreshId
  /\ BeginProtocol(t, FreshId, council[t].localMode,
                   [council[t] EXCEPT !.sid = FreshId,
                                      !.activeMode = council[t].localMode])
  /\ UNCHANGED <<question, loading, sessions, sidebarOpen, sessionLoadError,
                 isLoadingSession, mode, loads, torn, others>>

(* fetchSessions() issued as the last await of startCouncil *)
BeginFetch(task) ==
  [task EXCEPT !.pc = "awaitFetch", !.timer = NoTimer,
               !.calls = Append(@, Call("list-sessions", NoId))]

TypingStep(chatMsg) == chatMsg.model_name \o " is typing..."

(* run-all: the service fills the current round with the whole batch *)
SrvRunAll(sid, n) ==
  [srv EXCEPT ![sid] = ReplaceLast(@, [Last(@) EXCEPT !.chat_messages = ChatBatch(n)])]

RunAllOk(t, n) ==
  /\ council[t].pc = "awaitRunAll"
  /\ srv' = SrvRunAll(council[t].sid, n)
  /\ LET currentRound == Last(srv'[council[t].sid])
         batch == currentRound.chat_messages
     IN IF Len(batch) > 0
          THEN /\ currentStep' = TypingStep(batch[1])
               /\ council' = [council EXCEPT ![t] =
                    [@ EXCEPT !.pc = "revealWait", !.batch = batch,
                              !.shown = 0, !.timer = RevealDelayMs]]
          ELSE /\ currentStep' = currentStep
               /\ council' = [council EXCEPT ![t] =
                    BeginFetch([@ EXCEPT !.batch = batch])]
  /\ UNCHANGED <<question, messages, loading, sessionId, sessions,
                 sidebarOpen, sessionLoadError, isLoadingSession, mode,
                 loads, torn, others>>

(* mutant: the loop walks the batch from its end *)
RevealNextReversed(t) ==
  /\ council[t].pc = "revealWait"
  /\ council[t].timer = 0
  /\ LET i == council[t].shown + 1
         chatMsg == council[t].batch[Len(council[t].batch) - council[t].shown]
     IN /\ messages' = Append(messages,
                              Msg("chat", chatMsg.content, chatMsg.model_name))
        /\ IF i < Len(council[t].batch)
             THEN /\ currentStep' = TypingStep(council[t].batch[i + 1])
                  /\ council' = [council EXCEPT ![t] =
                       [@ EXCEPT !.shown = i, !.timer = RevealDelayMs]]
             ELSE /\ currentStep' = currentStep
                  /\ council' = [council EXCEPT ![t] =
                       BeginFetch([@ EXCEPT !.shown = i])]
  /\ UNCHANGED <<question, loading, sessionId, sessions, sidebarOpen,
                 sessionLoadError, isLoadingSession, mode, loads, srv, torn, others>>

(* the 400 ms timer of the reveal loop fires: one setMessages append, then *)
(* the next iteration up to its await, or the end of the loop              *)
RevealNext(t) ==
  /\ council[t].pc = "revealWait"
  /\ council[t].timer = 0
  /\ LET chatMsg == council[t].batch[council[t].shown + 1]
         i == council[t].shown + 1
     IN /\ messages' = Append(messages,
                              Msg("chat", chatMsg.content, chatMsg.model_name))
        /\ IF i < Len(council[t].batch)
             THEN /\ currentStep' = TypingStep(council[t].batch[i + 1])
                  /\ council' = [council EXCEPT ![t] =
                       [@ EXCEPT !.shown = i, !.timer = RevealDelayMs]]
             ELSE /\ currentStep' = currentStep
                  /\ council' = [council EXCEPT ![t] =
                       BeginFetch([@ EXCEPT !.shown = i])]
  /\ UNCHANGED <<question, loading, sessionId, sessions, sidebarOpen,
                 sessionLoadError, isLoadingSession, mode, loads, srv, torn, others>>

(* gather-responses *)
SrvResponses(sid, rs) ==
  [srv EXCEPT ![sid] = ReplaceLast(@, [Last(@) EXCEPT !.responses = rs])]

RECURSIVE addResponses(_, _)
addResponses(prev, rs) ==
  IF rs = <<>> THEN prev
  ELSE addResponses(
         IF Head(rs).error # ""
           THEN addMessage(prev, "error", "Error: " \o Head(rs).error,
                           Head(rs).model_name)
           ELSE addMessage(prev, "council", Head(rs).response,
                           Head(rs).model_name),
         Tail(rs))

(* mutant: the deciding marker is shown as soon as the responses are in *)
ResponsesOkEarlyMarker(t, rs) ==
  /\ council[t].pc = "awaitResponses"
  /\ srv' = SrvResponses(council[t].sid, rs)
  /\ messages' =
       addMessage(addResponses(messages, Last(srv'[council[t].sid]).responses),
                  "system", DecidingText, Null)
  /\ currentStep' = "Council is reviewing..."
  /\ council' = [council EXCEPT ![t] =
       [@ EXCEPT !.pc = "awaitReviews",
                 !.calls = Append(@, Call("reviews", council[t].sid))]]
  /\ UNCHANGED <<question, loading, sessionId, sessions, sidebarOpen,
                 sessionLoadError, isLoadingSession, mode, loads, torn, others>>

ResponsesOk(t, rs) ==
  /\ council[t].pc = "awaitResponses"
  /\ srv' = SrvResponses(council[t].sid, rs)
  /\ messages' = addResponses(messages, Last(srv'[council[t].sid]).responses)
  /\ currentStep' = "Council is reviewing..."
  /\ council' = [council EXCEPT ![t] =
       [@ EXCEPT !.pc = "awaitReviews",
                 !.calls = Append(@, Call("reviews", council[t].sid))]]
  /\ UNCHANGED <<question, loading, sessionId, sessions, sidebarOpen,
                 sessionLoadError, isLoadingSession, mode, loads, torn, others>>

(* request-reviews *)
SrvReviews(sid) ==
  [srv EXCEPT ![sid] = ReplaceLast(@, [Last(@) EXCEPT !.peer_reviews = <<"rev">>])]

(* mutant: the synthesize call targets the sessionId state of the last      *)
(* render instead of the local currentSessionId                             *)
ReviewsOkStale(t) ==
  /\ council[t].pc = "awaitReviews"
  /\ srv' = SrvReviews(council[t].sid)
  /\ currentStep' = "Chairman Grok is deciding..."
  /\ messages' = addMessage(messages, "system", DecidingText, Null)
  /\ council' = [council EXCEPT ![t] =
       [@ EXCEPT !.pc = "awaitSynthesize",
                 !.calls = Append(@, Call("synthesize", sessionId))]]
  /\ UNCHANGED <<question, loading, sessionId, sessions, sidebarOpen,
                 sessionLoadError, isLoadingSession, mode, loads, torn, others>>

ReviewsOk(t) ==
  /\ council[t].pc = "awaitReviews"
  /\ srv' = SrvReviews(council[t].sid)
  /\ currentStep' = "Chairman Grok is deciding..."
  /\ messages' = addMessage(messages, "system", DecidingText, Null)
  /\ council' = [council EXCEPT ![t] =
       [@ EXCEPT !.pc = "awaitSynthesize",
                 !.calls = Append(@, Call("synthesize", council[t].sid))]]
  /\ UNCHANGED <<question, loading, sessionId, sessions, sidebarOpen,
                 sessionLoadError, isLoadingSession, mode, loads, torn, others>>

(* synthesize *)
SrvSynthesize(sid) ==
  [srv EXCEPT ![sid] = ReplaceLast(@, [Last(@) EXCEPT !.final_synthesis = "syn"])]

SynthesizeOk(t) ==
  /\ council[t].pc = "awaitSynthesize"
  /\ srv' = SrvSynthesize(council[t].sid)
  /\ messages' = addMessage(messages, "chairman",
                            Last(srv'[council[t].sid]).final_synthesis,
                            ChairmanName)
  /\ council' = [council EXCEPT ![t] = BeginFetch(@)]
  /\ UNCHANGED <<question, loading, currentStep, sessionId, sessions,
                 sidebarOpen, sessionLoadError, isLoadingSession, mode,
                 loads, torn, others>>

(* fetchSessions settles (it swallows its own failure); then the finally *)
FetchSettled(t, ok) ==
  /\ council[t].pc = "awaitFetch"
  /\ sessions' = IF ok THEN ListSessions ELSE sessions
  /\ loading' = FALSE
  /\ currentStep' = ""
  /\ council' = [council EXCEPT ![t] = [@ EXCEPT !.pc = "done"]]
  /\ UNCHANGED <<question, messages, sessionId, sidebarOpen,
                 sessionLoadError, isLoadingSession, mode, loads, srv, torn, others>>

ProtocolAwaits ==
  {"awaitContinue", "awaitCreate", "awaitRunAll", "awaitResponses",
   "awaitReviews", "awaitSynthesize"}

(* error.response?.data?.detail || error.message: a detail that is there  *)
(* is the operand whatever its shape, the array or the object included      *)
ErrorText(detail, message) ==
  CASE detail.shape = "none" -> message
    [] detail.shape = "string" -> detail.text
    [] detail.shape = "list" -> detail.items
    [] OTHER -> detail.obj

(* mutant: the catch replaces the transcript by the error entry *)
CallFailedRollback(t, detail) ==
  /\ council[t].pc \in ProtocolAwaits
  /\ messages' = addMessage(<<>>, "error",
                            ErrorText(detail, NetworkErrorMessage), Null)
  /\ loading' = FALSE
  /\ currentStep' = ""
  /\ council' = [council EXCEPT ![t] = [@ EXCEPT !.pc = "done", !.failed = TRUE,
                                                    !.caught = detail]]
  /\ UNCHANGED <<question, sessionId, sessions, sidebarOpen,
                 sessionLoadError, isLoadingSession, mode, loads, srv, torn, others>>

(* mutant: the catch block without the finally *)
CallFailedNoFinally(t, detail) ==
  /\ council[t].pc \in ProtocolAwaits
  /\ messages' = addMessage(messages, "error",
                            ErrorText(detail, NetworkErrorMessage), Null)
  /\ council' = [council EXCEPT ![t] = [@ EXCEPT !.pc = "done", !.failed = TRUE,
                                                    !.caught = detail]]
  /\ UNCHANGED <<question, loading, currentStep, sessionId, sessions,
                 sidebarOpen, sessionLoadError, isLoadingSession, mode, loads,
                 srv, torn, others>>

(* a protocol call rejects: catch, then finally *)
CallFailed(t, detail) ==
  /\ council[t].pc \in ProtocolAwaits
  /\ messages' = addMessage(messages, "error",
                            ErrorText(detail, NetworkErrorMessage), Null)
  /\ loading' = FALSE
  /\ currentStep' = ""
  /\ council' = [council EXCEPT ![t] = [@ EXCEPT !.pc = "done", !.failed = TRUE,
                                                    !.caught = detail]]
  /\ UNCHANGED <<question, sessionId, sessions, sidebarOpen,
                 sessionLoadError, isLoadingSession, mode, loads, srv, torn, others>>

(* ------------------------------ startNewChat --------------------------- *)
(* mutant: setLoading(false) is forgotten *)
NewChatStateKeepsLoading(s) ==
  [s EXCEPT !.messages = <<>>, !.question = "", !.currentStep = "",
            !.sessionId = NoId]

NewChatState(s) ==
  [s EXCEPT !.messages = <<>>, !.question = "", !.loading = FALSE,
            !.currentStep = "", !.sessionId = NoId]

Controller ==
  [question |-> question, messages |-> messages, loading |-> loading,
   currentStep |-> currentStep, sessionId |-> sessionId,
   sessions |-> sessions, sidebarOpen |-> sidebarOpen,
   sessionLoadError |-> sessionLoadError,
   isLoadingSession |-> isLoadingSession, mode |-> mode]

(* the state the setters of startNewChat() leave, from the state s *)
ApplyChat(s) ==
  /\ messages' = s.messages
  /\ question' = s.question
  /\ loading' = s.loading
  /\ currentStep' = s.currentStep
  /\ sessionId' = s.sessionId
  /\ sessions' = s.sessions
  /\ sidebarOpen' = s.sidebarOpen
  /\ sessionLoadError' = s.sessionLoadError
  /\ isLoadingSession' = s.isLoadingSession
  /\ mode' = s.mode

TornNow == [t \in Tasks |-> IF InFlight(t) THEN council[t].pc ELSE torn[t]]

startNewChat ==
  /\ ApplyChat(NewChatState(Controller))
  /\ torn' = TornNow
  /\ UNCHANGED <<council, loads, srv, others>>

(* ------------------------------ loadSession ---------------------------- *)
TimeoutError == [message |-> "timeout", detail |-> ""]

(* a rejected get-session call: error.response?.data?.detail may be absent *)
NetErrors ==
  {[message |-> NetworkErrorMessage, detail |-> ""],
   [message |-> "Request failed with status code 503", detail |-> ServiceDetail]}

(* Math.max(0, minLoadingTime - elapsedTime) *)
remainingTime(elapsedTime) == Max(0, minLoadingTime - elapsedTime)

(* mutant: the timeout is not told apart from other failures *)
LoadErrorTextGeneric(error) ==
  IF error.detail # "" THEN error.detail ELSE GenericMessage

(* lines 210-216 *)
LoadErrorText(error) ==
  IF error.message = "timeout" THEN TimeoutMessage
  ELSE IF error.detail # "" THEN error.detail ELSE GenericMessage

(* loadSession(id) up to the await of Promise.race; called by the App       *)
(* effect when the URL names a session other than the active one            *)
BeginLoad(l, id) ==
  /\ loads[l].pc = "idle"
  /\ \A k \in Loads : k < l => loads[k].pc # "idle"
  /\ isLoadingSession' = TRUE
  /\ sessionLoadError' = Null
  /\ loading' = TRUE
  /\ currentStep' = "Loading session..."
  /\ loads' = [loads EXCEPT ![l] =
       [@ EXCEPT !.pc = "race", !.id = id, !.elapsed = 0,
                 !.deadline = LoadTimeoutMs, !.net = "pending",
                 !.calls = <<Call("get-session", id)>>]]

loadSession(l, id) ==
  /\ id # sessionId
  /\ BeginLoad(l, id)
  /\ UNCHANGED <<question, messages, sessionId, sessions, sidebarOpen,
                 mode, council, srv, torn, others>>

(* mutant: a loaded session leaves the sidebar as it is *)
LoadApplyKeepsSidebar(l, load) ==
  /\ messages' = load.loaded
  /\ sidebarOpen' = sidebarOpen
  /\ sessionLoadError' = Null
  /\ isLoadingSession' = FALSE
  /\ loading' = FALSE
  /\ currentStep' = ""
  /\ loads' = [loads EXCEPT ![l] = [load EXCEPT !.pc = "done", !.floor = NoTimer]]

(* lines 196-198 and the finally *)
LoadApply(l, load) ==
  /\ messages' = load.loaded
  /\ sidebarOpen' = FALSE
  /\ sessionLoadError' = Null
  /\ isLoadingSession' = FALSE
  /\ loading' = FALSE
  /\ currentStep' = ""
  /\ loads' = [loads EXCEPT ![l] = [load EXCEPT !.pc = "done", !.floor = NoTimer]]

(* lines 210-216 and the finally *)
LoadReject(l, load) ==
  /\ sessionLoadError' = LoadErrorText(load.error)
  /\ isLoadingSession' = FALSE
  /\ loading' = FALSE
  /\ currentStep' = ""
  /\ loads' = [loads EXCEPT ![l] = [load EXCEPT !.pc = "done", !.floor = NoTimer]]

(* get-session resolves first: lines 176-198 *)
GetResolved(l) ==
  /\ loads[l].pc = "race"
  /\ loads[l].net = "pending"
  /\ loads[l].id \in Existing
  /\ sessionId' = loads[l].id
  /\ LET session == srv[loads[l].id]
         load == [loads[l] EXCEPT !.net = "ok", !.first = "net",
                                  !.deadline = NoTimer,
                                  !.loaded = loadedMessages(session)]
     IN IF remainingTime(loads[l].elapsed) > 0
          THEN /\ loads' = [loads EXCEPT ![l] =
                    [load EXCEPT !.pc = "floorOk",
                                 !.floor = remainingTime(loads[l].elapsed)]]
               /\ UNCHANGED <<messages, sidebarOpen, sessionLoadError,
                              isLoadingSession, loading, currentStep>>
          ELSE LoadApply(l, load)
  /\ UNCHANGED <<question, sessions, mode, council, srv, torn, others>>

(* the race rejects, by the call or by the timer: lines 199-208 *)
LoadCatch(l, load) ==
  /\ IF remainingTime(loads[l].elapsed) > 0
       THEN /\ loads' = [loads EXCEPT ![l] =
                 [load EXCEPT !.pc = "floorErr",
                              !.floor = remainingTime(loads[l].elapsed)]]
            /\ UNCHANGED <<sessionLoadError, isLoadingSession, loading,
                           currentStep>>
       ELSE LoadReject(l, load)
  /\ UNCHANGED <<question, messages, sessionId, sessions, sidebarOpen, mode,
                 council, srv, torn, others>>

GetRejected(l, e) ==
  /\ loads[l].pc = "race"
  /\ loads[l].net = "pending"
  /\ LoadCatch(l, [loads[l] EXCEPT !.net = "failed", !.first = "net",
                                   !.deadline = NoTimer, !.error = e])

(* the 30 s timer rejects first; the call stays pending *)
DeadlineFired(l) ==
  /\ loads[l].pc = "race"
  /\ loads[l].deadline = 0
  /\ LoadCatch(l, [loads[l] EXCEPT !.first = "timer", !.deadline = NoTimer,
                                   !.error = TimeoutError])

(* the minimum-display timer fires: lines 196-198 or 210-216, then finally *)
FloorElapsed(l) ==
  /\ loads[l].pc \in {"floorOk", "floorErr"}
  /\ loads[l].floor = 0
  /\ IF loads[l].pc = "floorOk"
       THEN LoadApply(l, loads[l])
       ELSE /\ LoadReject(l, loads[l])
            /\ UNCHANGED <<messages, sidebarOpen>>
  /\ UNCHANGED <<question, sessionId, sessions, mode, council, srv, torn, others>>

(* mutant: the late response is applied after the fact *)
LateSettleApplied(l, outcome) ==
  /\ loads[l].pc # "race"
  /\ loads[l].net = "pending"
  /\ loads' = [loads EXCEPT ![l] = [@ EXCEPT !.net = outcome]]
  /\ IF outcome = "ok" /\ loads[l].id \in Existing
       THEN /\ sessionId' = loads[l].id
            /\ messages' = loadedMessages(srv[loads[l].id])
            /\ sessionLoadError' = Null
       ELSE UNCHANGED <<sessionId, messages, sessionLoadError>>
  /\ UNCHANGED <<question, loading, currentStep, sessions, sidebarOpen,
                 isLoadingSession, mode, council, srv, torn, others>>

(* the get-session call settles after the race was decided by the timer:   *)
(* Promise.race has already settled, nothing awaits the call any more      *)
LateSettle(l, outcome) ==
  /\ loads[l].pc # "race"
  /\ loads[l].net = "pending"
  /\ loads' = [loads EXCEPT ![l] = [@ EXCEPT !.net = outcome]]
  /\ UNCHANGED <<question, messages, loading, currentStep, sessionId,
                 sessions, sidebarOpen, sessionLoadError, isLoadingSession,
                 mode, council, srv, torn, others>>

(* ------------------------------- time ---------------------------------- *)
PendingTimers ==
  {council[t].timer : t \in {u \in Tasks : council[u].timer # NoTimer}}
    \cup {loads[l].deadline : l \in {k \in Loads : loads[k].deadline # NoTimer}}
    \cup {loads[l].floor : l \in {k \in Loads : loads[k].floor # NoTimer}}

Countdown(r, d) == IF r = NoTimer THEN NoTimer ELSE r - d


(* d milliseconds pass; a due timer fires before time moves on *)
Advance(d) ==
  /\ PendingTimers # {}
  /\ d > 0
  /\ \A r \in PendingTimers : d <= r
  /\ council' = [t \in Tasks |->
       [council[t] EXCEPT !.timer = Countdown(@, d)]]
  /\ loads' = [l \in Loads |->
       [loads[l] EXCEPT !.deadline = Countdown(@, d),
                        !.floor = Countdown(@, d),
                        !.elapsed = IF loads[l].pc \in {"idle", "done"}
                                      THEN @ ELSE @ + d]]
  /\ UNCHANGED <<question, messages, loading, currentStep, sessionId,
                 sessions, sidebarOpen, sessionLoadError, isLoadingSession,
                 mode, srv, torn, others>>

(* -------------------------- metadata operations ------------------------ *)
(* the sessions and folders the sidebar lists *)
ListedIds == {s.id : s \in sessions}

SessionRefetchOps ==
  {"delete-session", "rename-session", "pin-session", "move-session"}

FolderRefetchOps == {"create-folder", "update-folder", "delete-folder"}

BranchOps == {"branch-session", "branch-from-sidebar"}

(* an operation up to the await of its metadata call; the closure it runs  *)
(* in holds the sessionId of the render it was created in                  *)
MetaStart(o, op, id, arg, newPinned) ==
  /\ ops[o].pc = "idle"
  /\ \A k \in Ops : k < o => ops[k].pc # "idle"
  /\ ops' = [ops EXCEPT ![o] =
       [IdleOp EXCEPT !.pc = "awaitCall", !.op = op, !.id = id, !.arg = arg,
                      !.active = sessionId, !.newPinned = newPinned,
                      !.calls = <<Call(op, id)>>]]
  /\ UNCHANGED <<controllerVars, catalog, srvFolders, folders, errorModal,
                 projVars, modelVars,
                 incVars>>

deleteSession(o, id) ==
  /\ id \in ListedIds
  /\ MetaStart(o, "delete-session", id, NoFolder, FALSE)

renameSession(o, id) ==
  /\ id \in ListedIds
  /\ MetaStart(o, "rename-session", id, NoFolder, FALSE)

(* sessions.find((s) => s.id === id); !session?.is_pinned *)
NewPinned(id) ==
  IF \E s \in sessions : s.id = id
    THEN ~(CHOOSE s \in sessions : s.id = id).is_pinned
    ELSE TRUE

togglePinSession(o, id) ==
  /\ id \in ListedIds
  /\ MetaStart(o, "pin-session", id, NoFolder, NewPinned(id))

moveSessionToFolder(o, targetSessionId, targetFolderId) ==
  /\ targetSessionId \in ListedIds
  /\ targetFolderId \in folders \cup {NoFolder}
  /\ MetaStart(o, "move-session", targetSessionId, targetFolderId, FALSE)

shareSession(o, id) ==
  /\ id \in ListedIds
  /\ MetaStart(o, "share-session", id, NoFolder, FALSE)

createFolder(o) == MetaStart(o, "create-folder", NoFolder, NoFolder, FALSE)

updateFolder(o, folderId) ==
  /\ folderId \in folders
  /\ MetaStart(o, "update-folder", folderId, NoFolder, FALSE)

deleteFolder(o, folderId) ==
  /\ folderId \in folders
  /\ MetaStart(o, "delete-folder", folderId, NoFolder, FALSE)

(* App.handleBranch: branches the active session *)
handleBranch(o) ==
  /\ sessionId # NoId
  /\ MetaStart(o, "branch-session", sessionId, NoFolder, FALSE)

(* App.handleBranchFromSidebar *)
handleBranchFromSidebar(o, targetSessionId) ==
  /\ targetSessionId \in ListedIds
  /\ MetaStart(o, "branch-from-sidebar", targetSessionId, NoFolder, FALSE)

FreshFolder ==
  CHOOSE f \in FolderIds \ srvFolders :
    \A g \in FolderIds \ srvFolders : f <= g

(* the remote service accepts the call of op *)
SrvAccepts(op) ==
  CASE op.op \in {"delete-session", "rename-session", "pin-session",
                  "share-session"} -> op.id \in Existing
    [] op.op = "move-session" ->
         op.id \in Existing /\ op.arg \in srvFolders \cup {NoFolder}
    [] op.op = "create-folder" -> srvFolders # FolderIds
    [] op.op \in {"update-folder", "delete-folder"} -> op.id \in srvFolders
    [] op.op \in BranchOps -> op.id \in Existing /\ Used # Ids

(* deleting a folder detaches its sessions *)
SrvCatalog(op) ==
  CASE op.op = "delete-session" -> [catalog EXCEPT ![op.id].deleted = TRUE]
    [] op.op = "rename-session" -> [catalog EXCEPT ![op.id].title = "renamed"]
    [] op.op = "pin-session" ->
         [catalog EXCEPT ![op.id].is_pinned = op.newPinned]
    [] op.op = "move-session" -> [catalog EXCEPT ![op.id].folder_id = op.arg]
    [] op.op = "share-session" -> [catalog EXCEPT ![op.id].shared = TRUE]
    [] op.op = "delete-folder" ->
         [i \in Ids |-> IF catalog[i].folder_id = op.id
                          THEN [catalog[i] EXCEPT !.folder_id = NoFolder]
                          ELSE catalog[i]]
    [] OTHER -> catalog

SrvFolderList(op) ==
  CASE op.op = "create-folder" -> srvFolders \cup {FreshFolder}
    [] op.op = "delete-folder" -> srvFolders \ {op.id}
    [] OTHER -> srvFolders

(* mutant: the operation returns once its metadata call has succeeded *)
AfterCallNoRefetch(op) == [op EXCEPT !.pc = "done", !.outcome = "resolved"]

(* what follows the metadata call inside the try block: await               *)
(* fetchSessions(), await fetchFolders(), or the return of shareSession     *)
AfterCall(op) ==
  IF op.op \in SessionRefetchOps
    THEN [op EXCEPT !.pc = "awaitSessions",
                    !.calls = Append(@, Call("list-sessions", NoId))]
    ELSE IF op.op \in FolderRefetchOps
           THEN [op EXCEPT !.pc = "awaitFolders",
                           !.calls = Append(@, Call("list-folders", NoFolder))]
           ELSE [op EXCEPT !.pc = "done", !.outcome = "resolved"]

(* the metadata call of a hook operation resolves *)
MetaCallOk(o) ==
  /\ ops[o].pc = "awaitCall"
  /\ ops[o].op \notin BranchOps
  /\ SrvAccepts(ops[o])
  /\ catalog' = SrvCatalog(ops[o])
  /\ srvFolders' = SrvFolderList(ops[o])
  /\ ops' = [ops EXCEPT ![o] = AfterCall(@)]
  /\ UNCHANGED <<controllerVars, folders, errorModal, projVars, modelVars,
                 incVars>>

(* POST /session/:id/branch resolves: navigate, loadSession(newSessionId)  *)
(* up to its await and, from the sidebar, toggleSidebar()                  *)
BranchOk(o) ==
  /\ ops[o].pc = "awaitCall"
  /\ ops[o].op \in BranchOps
  /\ SrvAccepts(ops[o])
  /\ srv' = [srv EXCEPT ![FreshId] = srv[ops[o].id]]
  /\ \E l \in Loads : BeginLoad(l, FreshId)
  /\ sidebarOpen' = IF ops[o].op = "branch-from-sidebar" THEN ~sidebarOpen
                    ELSE sidebarOpen
  /\ ops' = [ops EXCEPT ![o] =
       [@ EXCEPT !.pc = "done", !.outcome = "resolved"]]
  /\ UNCHANGED <<question, messages, sessionId, sessions, mode, council,
                 torn, catalog, srvFolders, folders, errorModal, projVars,
                 modelVars, incVars>>

(* how the promise of an operation settles when its metadata call rejects:  *)
(* the catch of deleteSession only logs, the handlers of App open the error *)
(* modal, every other catch rethrows                                       *)
FailureOutcome(op) ==
  IF op.op = "delete-session" \/ op.op \in BranchOps THEN "resolved"
  ELSE "rejected"

MetaCallFailed(o) ==
  /\ ops[o].pc = "awaitCall"
  /\ ops' = [ops EXCEPT ![o] =
       [@ EXCEPT !.pc = "done", !.failed = TRUE,
                 !.outcome = FailureOutcome(ops[o])]]
  /\ errorModal' = IF ops[o].op \in BranchOps THEN TRUE ELSE errorModal
  /\ UNCHANGED <<controllerVars, catalog, srvFolders, folders, projVars,
                 modelVars, incVars>>

(* mutant: deleteFolder returns once the folder list is refetched *)
FoldersSettledOnly(o, ok) ==
  /\ ops[o].pc = "awaitFolders"
  /\ folders' = IF ok THEN srvFolders ELSE folders
  /\ ops' = [ops EXCEPT ![o] = [@ EXCEPT !.pc = "done", !.outcome = "resolved"]]
  /\ UNCHANGED <<controllerVars, catalog, srvFolders, errorModal, projVars,
                 modelVars, incVars>>

(* fetchFolders() settles (it swallows its own failure) *)
FoldersSettled(o, ok) ==
  /\ ops[o].pc = "awaitFolders"
  /\ folders' = IF ok THEN srvFolders ELSE folders
  /\ ops' = [ops EXCEPT ![o] =
       IF ops[o].op = "delete-folder"
         THEN [@ EXCEPT !.pc = "awaitSessions",
                        !.calls = Append(@, Call("list-sessions", NoId))]
         ELSE [@ EXCEPT !.pc = "done", !.outcome = "resolved"]]
  /\ UNCHANGED <<controllerVars, catalog, srvFolders, errorModal, projVars,
                 modelVars, incVars>>

(* mutant: deleteSession resets the chat whichever session it deleted *)
ResetsChatAlways(op) == op.op = "delete-session"

(* if (sessionId === id) startNewChat(), with the sessionId of the closure *)
ResetsChat(op) == op.op = "delete-session" /\ op.active = op.id

(* fetchSessions() settles (it swallows its own failure); deleteSession    *)
(* then resets the chat if it deleted the session its closure saw active   *)
SessionsSettled(o, ok) ==
  /\ ops[o].pc = "awaitSessions"
  /\ LET fetched == [Controller EXCEPT
                       !.sessions = IF ok THEN ListSessions ELSE sessions]
     IN IF ResetsChat(ops[o])
          THEN /\ ApplyChat(NewChatState(fetched))
               /\ torn' = TornNow
          ELSE /\ ApplyChat(fetched)
               /\ torn' = torn
  /\ ops' = [ops EXCEPT ![o] =
       [@ EXCEPT !.pc = "done", !.outcome = "resolved"]]
  /\ UNCHANGED <<council, loads, srv, catalog, srvFolders, folders,
                 errorModal, projVars, modelVars,
                 incVars>>

(* ------------------------- model selection store ---------------------- *)
Range(f) == {f[i] : i \in DOMAIN f}

NoDuplicates(f) == \A i, j \in DOMAIN f : f[i] = f[j] => i = j

Filter(f, keep(_)) == SelectSeq(f, keep)

(* GET /models: the first n models in catalog order, one of them (or none) *)
(* flagged chairman                                                        *)
Catalog(n, chairman) ==
  [i \in 1..n |-> [id |-> i, is_chairman |-> (i = chairman)]]

Catalogs == {Catalog(n, c) : n \in 0..MaxModels, c \in 0..MaxModels}

ModelIdsOf(models) == [i \in DOMAIN models |-> models[i].id]

(* what an earlier visit left in localStorage: nothing, or a selection the *)
(* hook saved then, which may name a model that no longer exists           *)
SavedSelections ==
  {NothingStored}
    \cup {[present |-> TRUE, value |-> v] :
            v \in {w \in UNION {[1..n -> ModelIds \cup {StaleModelId}] :
                                   n \in 0..MaxSaved} : NoDuplicates(w)}}

(* localStorage.getItem(...) ? JSON.parse(saved) : [] *)
InitialSelection(stored) == IF stored.present THEN stored.value ELSE <<>>

Save(value) == [present |-> TRUE, value |-> value]

(* the effect of lines 35-39, run after a render that changed selectedModels *)
Persist(selected, stored) ==
  IF Len(selected) > 0 THEN Save(selected) ELSE stored

(* mutant: the last selected model can be deselected *)
ToggledNoFloor(prev, modelId) ==
  IF modelId \in Range(prev)
    THEN Filter(prev, LAMBDA id : id # modelId)
    ELSE Append(prev, modelId)

(* the updater passed to setSelectedModels in toggleModel *)
Toggled(prev, modelId) ==
  IF modelId \in Range(prev)
    THEN IF Len(prev) <= 1 THEN prev
         ELSE Filter(prev, LAMBDA id : id # modelId)
    ELSE Append(prev, modelId)

(* the checkbox of a row of the models table *)
toggleModel(modelId) ==
  /\ modelId \in Range(ModelIdsOf(availableModels))
  /\ selectedModels' = Toggled(selectedModels, modelId)
  /\ storedModels' = Persist(selectedModels', storedModels)
  /\ lastToggle' = [called |-> TRUE, modelId |-> modelId,
                    prev |-> selectedModels]
  /\ selectAlls' = NoSelectAll
  /\ UNCHANGED <<availableModels, modelsFetch, controllerVars, metaVars,
                 projVars, incVars>>

(* mutant: the catalog never counts as fully selected *)
allSelectedNever == FALSE

allSelected ==
  /\ Len(availableModels) > 0
  /\ \A i \in DOMAIN availableModels :
       availableModels[i].id \in Range(selectedModels)

Chairmen == {i \in DOMAIN availableModels : availableModels[i].is_chairman}

(* availableModels.find((m) => m.is_chairman): the first one flagged *)
FirstChairman == CHOOSE i \in Chairmen : \A j \in Chairmen : i <= j

selectAllModels ==
  /\ selectedModels' =
       IF allSelected
         THEN IF Chairmen # {} THEN <<availableModels[FirstChairman].id>>
              ELSE <<availableModels[1].id>>
         ELSE ModelIdsOf(availableModels)
  /\ storedModels' = Persist(selectedModels', storedModels)
  /\ lastToggle' = NoToggle
  /\ selectAlls' = [count |-> IF selectAlls.count < 2
                                THEN selectAlls.count + 1 ELSE 2,
                    prev |-> selectedModels]
  /\ UNCHANGED <<availableModels, modelsFetch, controllerVars, metaVars,
                 projVars, incVars>>

(* the mount effect calls fetchModels() once: up to the await *)
fetchModels ==
  /\ modelsFetch = "idle"
  /\ lastToggle = NoToggle
  /\ modelsFetch' = "pending"
  /\ UNCHANGED <<availableModels, selectedModels, storedModels, lastToggle,
                 selectAlls, controllerVars, metaVars, projVars,
                 incVars>>

(* mutant: the saved selection is taken as it was stored *)
ValidSavedUnfiltered(parsed, validModelIds) == parsed

(* parsed.filter((id) => validModelIds.includes(id)) *)
ValidSaved(parsed, validModelIds) ==
  Filter(parsed, LAMBDA id : id \in Range(validModelIds))

(* GET /models resolves: lines 45-73, then the persisting effect *)
ModelsOk(models) ==
  /\ modelsFetch = "pending"
  /\ modelsFetch' = "done"
  /\ availableModels' = models
  /\ LET validModelIds == ModelIdsOf(models)
         parsed == storedModels.value
         validSavedModels == ValidSaved(parsed, validModelIds)
     IN IF storedModels.present
          THEN IF Len(validSavedModels) = 0
                 THEN /\ selectedModels' = validModelIds
                      /\ storedModels' = Save(validModelIds)
                 ELSE /\ selectedModels' = validSavedModels
                      /\ storedModels' = Save(validSavedModels)
          ELSE /\ selectedModels' = validModelIds
               /\ storedModels' = Save(validModelIds)
  /\ lastToggle' = NoToggle
  /\ selectAlls' = NoSelectAll
  /\ UNCHANGED <<controllerVars, metaVars, projVars,
                 incVars>>

(* GET /models rejects: the catch only logs *)
ModelsFailed ==
  /\ modelsFetch = "pending"
  /\ modelsFetch' = "failed"
  /\ UNCHANGED <<availableModels, selectedModels, storedModels, lastToggle,
                 selectAlls, controllerVars, metaVars, projVars,
                 incVars>>

(* ---------------------------- incognito chat --------------------------- *)
IncognitoFallback == "Something went wrong. Please try again."

(* err.msg || JSON.stringify(err) *)
ItemText(err) == IF err.msg # "" THEN err.msg ELSE err.json

(* detail.map((err) => err.msg || JSON.stringify(err)).join(', ') *)
RECURSIVE JoinItems(_)
JoinItems(items) ==
  IF items = <<>> THEN ""
  ELSE IF Len(items) = 1 THEN ItemText(Head(items))
  ELSE ItemText(Head(items)) \o ", " \o JoinItems(Tail(items))

(* the catch block of handleSubmit, lines 273-286 *)
errorMessage(detail) ==
  CASE detail.shape = "string" -> detail.text
    [] detail.shape = "list" -> JoinItems(detail.items)
    [] detail.shape = "object" -> ItemText(detail.obj)
    [] OTHER -> IncognitoFallback

(* addMessage(type, content, modelName = null, extras = {}) *)
IncognitoMsg(type, content, modelName, responseTime) ==
  [type |-> type, content |-> content, modelName |-> modelName,
   responseTime |-> responseTime]

(* the ghost button of the header opens the modal *)
openIncognito ==
  /\ ~incognito.open
  /\ incognito' = [incognito EXCEPT !.open = TRUE]
  /\ UNCHANGED <<ephemeral, controllerVars, metaVars, projVars, modelVars>>

(* onChange of the textarea, which is disabled while loading *)
setIncognitoQuestion(q) ==
  /\ incognito.open
  /\ ~incognito.loading
  /\ q # incognito.question
  /\ incognito' = [incognito EXCEPT !.question = q]
  /\ UNCHANGED <<ephemeral, controllerVars, metaVars, projVars, modelVars>>

(* handleSubmit up to the await of POST /query *)
handleSubmit ==
  /\ incognito.open
  /\ incognito.pc = "idle"
  /\ incognito.submits < MaxIncognito
  /\ Trim(incognito.question) # ""
  /\ ~incognito.loading
  /\ incognito' =
       [incognito EXCEPT
          !.pc = "awaitCreate", !.question = "", !.loading = TRUE,
          !.messages = Append(@, IncognitoMsg("user", incognito.question,
                                              Null, Undefined)),
          !.currentStep = "Creating ephemeral session...",
          !.calls = Append(@, Call("create-session", NoId)),
          !.submits = @ + 1, !.detail = NoDetail, !.cleared = FALSE]
  /\ UNCHANGED <<ephemeral, controllerVars, metaVars, projVars, modelVars>>

(* POST /query resolves: the service created an ephemeral session *)
IncognitoCreateOk ==
  /\ incognito.pc = "awaitCreate"
  /\ LET id == ephemeral.created + 1
     IN /\ ephemeral' = [created |-> id, alive |-> ephemeral.alive \cup {id}]
        /\ incognito' =
             [incognito EXCEPT
                !.pc = "awaitRunAll", !.sessionId = id,
                !.currentStep = "Models are typing...",
                !.calls = Append(@, Call("run-all", id))]
  /\ UNCHANGED <<controllerVars, metaVars, projVars, modelVars>>

(* the catch and finally blocks of handleSubmit *)
IncognitoCaught(detail) ==
  [incognito EXCEPT
     !.pc = "idle", !.detail = detail, !.loading = FALSE, !.currentStep = "",
     !.messages = Append(@, IncognitoMsg("error", errorMessage(detail),
                                         Null, Undefined))]

(* POST /query rejects *)
IncognitoCreateFailed(detail) ==
  /\ incognito.pc = "awaitCreate"
  /\ incognito' = IncognitoCaught(detail)
  /\ UNCHANGED <<ephemeral, controllerVars, metaVars, projVars, modelVars>>

(* the DELETE call that follows the reveal loop *)
IncognitoCleanup(c) ==
  [c EXCEPT !.pc = "awaitDelete",
            !.calls = Append(@, Call("delete-session", c.sessionId))]

(* POST /session/:id/run-all resolves with n chat messages *)
IncognitoRunAllOk(n) ==
  /\ incognito.pc = "awaitRunAll"
  /\ incognito' =
       IF n > 0
         THEN [incognito EXCEPT
                 !.pc = "typing", !.pending = ChatBatch(n), !.next = 1,
                 !.currentStep = TypingStep(ChatBatch(n)[1])]
         ELSE IncognitoCleanup([incognito EXCEPT !.pending = <<>>])
  /\ UNCHANGED <<ephemeral, controllerVars, metaVars, projVars, modelVars>>

(* POST /session/:id/run-all rejects: the outer catch, past the cleanup *)
IncognitoRunAllFailed(detail) ==
  /\ incognito.pc = "awaitRunAll"
  /\ incognito' = IncognitoCaught(detail)
  /\ UNCHANGED <<ephemeral, controllerVars, metaVars, projVars, modelVars>>

(* the 300 ms timer of the reveal loop fires: addMessage('chat', ...) and   *)
(* the next turn of the loop, or the cleanup call after the last one        *)
IncognitoReveal ==
  /\ incognito.pc = "typing"
  /\ LET chatMsg == incognito.pending[incognito.next]
         shown == [incognito EXCEPT
                     !.messages =
                       Append(@, IncognitoMsg("chat", chatMsg.content,
                                              chatMsg.model_name,
                                              chatMsg.response_time_ms))]
     IN incognito' =
          IF incognito.next < Len(incognito.pending)
            THEN [shown EXCEPT
                    !.next = @ + 1,
                    !.currentStep =
                      TypingStep(incognito.pending[incognito.next + 1])]
            ELSE IncognitoCleanup(shown)
  /\ UNCHANGED <<ephemeral, controllerVars, metaVars, projVars, modelVars>>

(* DELETE /session/:id settles; its failure is ignored; then finally *)
IncognitoDeleteSettled(ok) ==
  /\ incognito.pc = "awaitDelete"
  /\ ephemeral' = IF ok THEN [ephemeral EXCEPT
                                !.alive = @ \ {incognito.sessionId}]
                  ELSE ephemeral
  /\ incognito' = [incognito EXCEPT !.pc = "idle", !.loading = FALSE,
                                    !.currentStep = ""]
  /\ UNCHANGED <<controllerVars, metaVars, projVars, modelVars>>

(* the Clear chat button, rendered while there are messages *)
handleClearChat ==
  /\ incognito.open
  /\ incognito.messages # <<>>
  /\ incognito' = [incognito EXCEPT !.messages = <<>>, !.question = "",
                                    !.cleared = @ \/ incognito.pc = "typing"]
  /\ UNCHANGED <<ephemeral, controllerVars, metaVars, projVars, modelVars>>

(* the close button and the Escape key *)
handleClose ==
  /\ incognito.open
  /\ incognito' = [incognito EXCEPT !.messages = <<>>, !.question = "",
                                    !.open = FALSE,
                                    !.cleared = @ \/ incognito.pc = "typing"]
  /\ UNCHANGED <<ephemeral, controllerVars, metaVars, projVars, modelVars>>

(* -------------------------- projector invocations ---------------------- *)
(* loadMessagesFromSession(doc) is called while the clock reads now *)
ProjectSession ==
  /\ projected' = [done |-> TRUE, round |-> 0,
                   msgs |-> loadMessagesFromSession(doc, now)]
  /\ UNCHANGED <<doc, now, controllerVars, metaVars, modelVars,
                 incVars>>

(* roundToMessages(doc.rounds[i]) is called while the clock reads now *)
ProjectRound(i) ==
  /\ i \in 1..Len(doc.rounds)
  /\ projected' = [done |-> TRUE, round |-> i,
                   msgs |-> roundToMessagesAt(doc.rounds[i], now)]
  /\ UNCHANGED <<doc, now, controllerVars, metaVars, modelVars,
                 incVars>>

(* a millisecond passes *)
Tick ==
  /\ now < MaxClock
  /\ now' = now + 1
  /\ UNCHANGED <<doc, projected, controllerVars, metaVars, modelVars,
                 incVars>>

(* --------------------------- specification ----------------------------- *)
(* Spec is the whole controller.  SpecCouncil and SpecLoad restrict it to   *)
(* the submissions and to the session loads, which keeps each of them       *)
(* exhaustively checkable.                                                  *)
Next ==
  \/ \E v \in Questions : SetQuestion(v)
  \/ \E m \in Modes : SetMode(m)
  \/ toggleSidebar
  \/ \E t \in Tasks : startCouncil(t)
  \/ \E t \in Tasks : ContinueOk(t)
  \/ \E t \in Tasks : CreateOk(t)
  \/ \E t \in Tasks, n \in 0..MaxChat : RunAllOk(t, n)
  \/ \E t \in Tasks : RevealNext(t)
  \/ \E t \in Tasks, rs \in ResponseBatches : ResponsesOk(t, rs)
  \/ \E t \in Tasks : ReviewsOk(t)
  \/ \E t \in Tasks : SynthesizeOk(t)
  \/ \E t \in Tasks, ok \in BOOLEAN : FetchSettled(t, ok)
  \/ \E t \in Tasks, detail \in TextDetails : CallFailed(t, detail)
  \/ startNewChat
  \/ \E l \in Loads, id \in Existing : loadSession(l, id)
  \/ \E l \in Loads : GetResolved(l)
  \/ \E l \in Loads, e \in NetErrors : GetRejected(l, e)
  \/ \E l \in Loads : DeadlineFired(l)
  \/ \E l \in Loads : FloorElapsed(l)
  \/ \E l \in Loads, outcome \in {"ok", "failed"} : LateSettle(l, outcome)
  \/ \E d \in {TickMs} \cup PendingTimers : Advance(d)

Spec == Init /\ [][Next]_vars

(* submissions only: no session is loaded *)
NextCouncil ==
  \/ \E v \in Questions : SetQuestion(v)
  \/ \E m \in Modes : SetMode(m)
  \/ \E t \in Tasks : startCouncil(t)
  \/ \E t \in Tasks : ContinueOk(t)
  \/ \E t \in Tasks : CreateOk(t)
  \/ \E t \in Tasks, n \in 0..MaxChat : RunAllOk(t, n)
  \/ \E t \in Tasks : RevealNext(t)
  \/ \E t \in Tasks, rs \in ResponseBatches : ResponsesOk(t, rs)
  \/ \E t \in Tasks : ReviewsOk(t)
  \/ \E t \in Tasks : SynthesizeOk(t)
  \/ \E t \in Tasks, ok \in BOOLEAN : FetchSettled(t, ok)
  \/ \E t \in Tasks, detail \in TextDetails : CallFailed(t, detail)
  \/ startNewChat
  \/ \E d \in PendingTimers : Advance(d)

SpecCouncil == Init /\ [][NextCouncil]_vars

(* session loads only: nothing is submitted *)
NextLoad ==
  \/ toggleSidebar
  \/ startNewChat
  \/ \E l \in Loads, id \in Existing : loadSession(l, id)
  \/ \E l \in Loads : GetResolved(l)
  \/ \E l \in Loads, e \in NetErrors : GetRejected(l, e)
  \/ \E l \in Loads : DeadlineFired(l)
  \/ \E l \in Loads : FloorElapsed(l)
  \/ \E l \in Loads, outcome \in {"ok", "failed"} : LateSettle(l, outcome)
  \/ \E d \in {TickMs} \cup PendingTimers : Advance(d)

SpecLoad == Init /\ [][NextLoad]_vars

(* session loads and nothing else: what two loads do to one another *)
NextRace ==
  \/ \E l \in Loads, id \in Existing : loadSession(l, id)
  \/ \E l \in Loads : GetResolved(l)
  \/ \E l \in Loads, e \in NetErrors : GetRejected(l, e)
  \/ \E l \in Loads : DeadlineFired(l)
  \/ \E l \in Loads : FloorElapsed(l)
  \/ \E l \in Loads, outcome \in {"ok", "failed"} : LateSettle(l, outcome)
  \/ \E d \in {TickMs} \cup PendingTimers : Advance(d)

SpecRace == Init /\ [][NextRace]_vars

(* one submission and one session load side by side, with startNewChat()   *)
NextSettle ==
  \/ SetQuestion("q")
  \/ startCouncil(1)
  \/ ContinueOk(1)
  \/ CreateOk(1)
  \/ \E n \in 0..MaxChat : RunAllOk(1, n)
  \/ RevealNext(1)
  \/ \E rs \in ResponseBatches : ResponsesOk(1, rs)
  \/ ReviewsOk(1)
  \/ SynthesizeOk(1)
  \/ \E ok \in BOOLEAN : FetchSettled(1, ok)
  \/ \E detail \in TextDetails : CallFailed(1, detail)
  \/ startNewChat
  \/ \E id \in Existing : loadSession(1, id)
  \/ GetResolved(1)
  \/ \E e \in NetErrors : GetRejected(1, e)
  \/ DeadlineFired(1)
  \/ FloorElapsed(1)
  \/ \E outcome \in {"ok", "failed"} : LateSettle(1, outcome)
  \/ \E d \in PendingTimers : Advance(d)

(* the call a submission awaits settles, by an answer or by a rejection *)
CallSettles(t) ==
  \/ ContinueOk(t)
  \/ CreateOk(t)
  \/ \E n \in 0..MaxChat : RunAllOk(t, n)
  \/ \E rs \in ResponseBatches : ResponsesOk(t, rs)
  \/ ReviewsOk(t)
  \/ SynthesizeOk(t)
  \/ \E ok \in BOOLEAN : FetchSettled(t, ok)
  \/ \E detail \in TextDetails : CallFailed(t, detail)

(* Promise.race of a load settles: the call is answered or rejected, or the *)
(* 30 s timer fires                                                         *)
RaceSettles(l) ==
  \/ GetResolved(l)
  \/ \E e \in NetErrors : GetRejected(l, e)
  \/ DeadlineFired(l)

(* every remote call settles, time passes and a timer that is due fires *)
SettleFairness ==
  /\ WF_vars(CallSettles(1))
  /\ WF_vars(RaceSettles(1))
  /\ WF_vars(RevealNext(1))
  /\ WF_vars(FloorElapsed(1))
  /\ WF_vars(\E d \in PendingTimers : Advance(d))

SpecSettle == Init /\ [][NextSettle]_vars /\ SettleFairness

(* the message projector on its own, applied to the documents of SessionDocs *)
InitProjectorDocs ==
  /\ InitController
  /\ mode = "formal"
  /\ sessions = {}
  /\ folders = {}
  /\ InitMeta
  /\ InitIncognito
  /\ InitModels
  /\ doc \in SessionDocs
  /\ now = 0
  /\ projected = NotProjected

NextProjector ==
  \/ ProjectSession
  \/ \E i \in 1..MaxRounds : ProjectRound(i)
  \/ Tick

SpecProjector == InitProjectorDocs /\ [][NextProjector]_vars

(* the model selection store on its own *)
InitModelStore ==
  /\ InitController
  /\ mode = "formal"
  /\ sessions = {}
  /\ folders = {}
  /\ InitMeta
  /\ InitIncognito
  /\ InitProjector
  /\ availableModels = <<>>
  /\ storedModels \in SavedSelections
  /\ selectedModels = InitialSelection(storedModels)
  /\ modelsFetch = "idle"
  /\ lastToggle = NoToggle
  /\ selectAlls = NoSelectAll

NextModels ==
  \/ \E m \in ModelIds : toggleModel(m)
  \/ selectAllModels
  \/ fetchModels
  \/ \E models \in Catalogs : ModelsOk(models)
  \/ ModelsFailed

SpecModels == InitModelStore /\ [][NextModels]_vars

NextIncognito ==
  \/ openIncognito
  \/ \E q \in Questions : setIncognitoQuestion(q)
  \/ handleSubmit
  \/ IncognitoCreateOk
  \/ \E detail \in Details : IncognitoCreateFailed(detail)
  \/ \E n \in 0..MaxChat : IncognitoRunAllOk(n)
  \/ \E detail \in Details : IncognitoRunAllFailed(detail)
  \/ IncognitoReveal
  \/ \E ok \in BOOLEAN : IncognitoDeleteSettled(ok)
  \/ handleClearChat
  \/ handleClose

(* the component is mounted by App with the modal closed *)
InitIncognitoChat ==
  /\ InitController
  /\ mode = "formal"
  /\ sessions = {}
  /\ folders = {}
  /\ InitMeta
  /\ InitIncognito
  /\ InitProjector
  /\ InitModels

SpecIncognito == InitIncognitoChat /\ [][NextIncognito]_vars

(* the metadata operations of the hook and one session load that succeeds, *)
(* which makes a session active; the catalog and the folder list were       *)
(* fetched by the mount effect                                              *)
InitCatalogFetched ==
  /\ InitController
  /\ mode = "formal"
  /\ InitMeta
  /\ InitIncognito
  /\ InitProjector
  /\ InitModels
  /\ sessions = ListSessions
  /\ folders = srvFolders

NextMeta ==
  \/ \E o \in Ops, id \in Ids : deleteSession(o, id)
  \/ \E o \in Ops, id \in Ids : renameSession(o, id)
  \/ \E o \in Ops, id \in Ids : togglePinSession(o, id)
  \/ \E o \in Ops, id \in Ids, f \in FolderIds \cup {NoFolder} :
       moveSessionToFolder(o, id, f)
  \/ \E o \in Ops, id \in Ids : shareSession(o, id)
  \/ \E o \in Ops : createFolder(o)
  \/ \E o \in Ops, f \in FolderIds : updateFolder(o, f)
  \/ \E o \in Ops, f \in FolderIds : deleteFolder(o, f)
  \/ \E o \in Ops : MetaCallOk(o)
  \/ \E o \in Ops : MetaCallFailed(o)
  \/ \E o \in Ops, ok \in BOOLEAN : FoldersSettled(o, ok)
  \/ \E o \in Ops, ok \in BOOLEAN : SessionsSettled(o, ok)
  \/ startNewChat
  \/ \E id \in Existing : loadSession(1, id)
  \/ \E l \in Loads : GetResolved(l)
  \/ \E l \in Loads : FloorElapsed(l)
  \/ \E d \in PendingTimers : Advance(d)

SpecMeta == InitCatalogFetched /\ [][NextMeta]_vars

(* one submission with one metadata operation at a time running beside it *)
NextInterleave ==
  \/ SetQuestion("q")
  \/ \E m \in Modes : SetMode(m)
  \/ \E t \in Tasks : startCouncil(t)
  \/ \E t \in Tasks : ContinueOk(t)
  \/ \E t \in Tasks : CreateOk(t)
  \/ \E t \in Tasks, n \in 0..MaxChat : RunAllOk(t, n)
  \/ \E t \in Tasks : RevealNext(t)
  \/ \E t \in Tasks, rs \in ResponseBatches : ResponsesOk(t, rs)
  \/ \E t \in Tasks : ReviewsOk(t)
  \/ \E t \in Tasks : SynthesizeOk(t)
  \/ \E t \in Tasks, ok \in BOOLEAN : FetchSettled(t, ok)
  \/ \E t \in Tasks, detail \in TextDetails : CallFailed(t, detail)
  \/ \E id \in Ids : deleteSession(1, id)
  \/ \E id \in Ids : renameSession(1, id)
  \/ \E id \in Ids : togglePinSession(1, id)
  \/ \E id \in Ids, f \in FolderIds \cup {NoFolder} :
       moveSessionToFolder(1, id, f)
  \/ \E id \in Ids : shareSession(1, id)
  \/ createFolder(1)
  \/ \E f \in FolderIds : updateFolder(1, f)
  \/ \E f \in FolderIds : deleteFolder(1, f)
  \/ MetaCallOk(1)
  \/ MetaCallFailed(1)
  \/ \E ok \in BOOLEAN : FoldersSettled(1, ok)
  \/ \E ok \in BOOLEAN : SessionsSettled(1, ok)
  \/ \E d \in PendingTimers : Advance(d)

SpecInterleave == InitCatalogFetched /\ [][NextInterleave]_vars

(* a first submission whose calls may be rejected with a detail of any     *)
(* shape                                                                    *)
NextFailure ==
  \/ SetQuestion("q")
  \/ \E m \in Modes : SetMode(m)
  \/ startCouncil(1)
  \/ CreateOk(1)
  \/ \E n \in 0..MaxChat : RunAllOk(1, n)
  \/ RevealNext(1)
  \/ \E rs \in ResponseBatches : ResponsesOk(1, rs)
  \/ ReviewsOk(1)
  \/ SynthesizeOk(1)
  \/ \E ok \in BOOLEAN : FetchSettled(1, ok)
  \/ \E detail \in Details : CallFailed(1, detail)
  \/ \E d \in PendingTimers : Advance(d)

SpecFailure == Init /\ [][NextFailure]_vars

(* sharing and branching, the two operations that add to what the catalog  *)
(* lists, with the session loads a branch starts                            *)
NextBranch ==
  \/ \E o \in Ops, id \in Ids : shareSession(o, id)
  \/ \E o \in Ops : handleBranch(o)
  \/ \E o \in Ops, id \in Ids : handleBranchFromSidebar(o, id)
  \/ \E o \in Ops : MetaCallOk(o)
  \/ \E o \in Ops : BranchOk(o)
  \/ \E o \in Ops : MetaCallFailed(o)
  \/ toggleSidebar
  \/ \E id \in Existing : loadSession(1, id)
  \/ \E l \in Loads : GetResolved(l)
  \/ \E l \in Loads : FloorElapsed(l)
  \/ \E d \in PendingTimers : Advance(d)

SpecBranch == InitCatalogFetched /\ [][NextBranch]_vars

(* ============================== claims ================================= *)

InFlightTasks == {t \in Tasks : InFlight(t)}

(* C1: while a submission is in flight a second one is rejected, so at most *)
(* one orchestration (formal or chat pipeline) is ever in flight.           *)
C1_SingleOrchestration == Cardinality(InFlightTasks) <= 1

ProtocolCalls(t) ==
  SelectSeq(council[t].calls, LAMBDA c : c.op # "list-sessions")

Continued(t) ==
  council[t].calls # <<>> /\ council[t].calls[1].op = "continue"

Created(t) ==
  council[t].calls # <<>> /\ council[t].calls[1].op = "create"

(* C2: on the continue path the protocol variant that runs is the mode of   *)
(* the first round of the session, whatever the local mode preference is.   *)
C2_ContinueInheritsMode ==
  \A t \in Tasks :
    (Continued(t) /\ Len(council[t].calls) >= 2) =>
      /\ council[t].calls[2].op =
           (IF srv[council[t].sid][1].mode = "chat" THEN "run-all"
            ELSE "responses")
      /\ \A i \in 2..Len(ProtocolCalls(t)) :
           ProtocolCalls(t)[i].op = "run-all"
             <=> srv[council[t].sid][1].mode = "chat"

C2_Witness ==
  \E t \in Tasks :
    /\ Continued(t)
    /\ Len(council[t].calls) >= 2
    /\ council[t].calls[2].op = "run-all"
    /\ council[t].localMode = "formal"

ExpectedCalls(m, sid) ==
  IF m = "chat"
    THEN <<Call("create", NoId), Call("run-all", sid)>>
    ELSE <<Call("create", NoId), Call("responses", sid),
           Call("reviews", sid), Call("synthesize", sid)>>

IsPrefix(p, s) == Len(p) <= Len(s) /\ p = SubSeq(s, 1, Len(p))

(* C3: a submission without active session id issues one create call, then  *)
(* the calls of its mode once each and in order, all on the created id.     *)
C3_CreateThenProtocolOnce ==
  \A t \in Tasks :
    Created(t) =>
      /\ council[t].sid # NoId =>
           /\ council[t].sid \in Existing
           /\ IsPrefix(ProtocolCalls(t),
                       ExpectedCalls(council[t].localMode, council[t].sid))
      /\ council[t].sid = NoId => ProtocolCalls(t) = <<Call("create", NoId)>>
      /\ (council[t].pc \in {"awaitFetch", "done"} /\ ~council[t].failed) =>
           ProtocolCalls(t) =
             ExpectedCalls(council[t].localMode, council[t].sid)

C3_Witness ==
  \E t \in Tasks :
    /\ Created(t)
    /\ council[t].pc = "done"
    /\ ~council[t].failed
    /\ council[t].localMode = "formal"
    /\ Len(ProtocolCalls(t)) = 4

(* C4: when a protocol call fails the submission issues no further call,    *)
(* appends exactly one error entry and removes nothing from the transcript. *)
C4_FailureHalts ==
  [][\A t \in Tasks :
       /\ (~council[t].failed /\ council'[t].failed) =>
            /\ council[t].pc \in ProtocolAwaits
            /\ council'[t].pc = "done"
            /\ council'[t].calls = council[t].calls
            /\ Len(messages') = Len(messages) + 1
            /\ SubSeq(messages', 1, Len(messages)) = messages
            /\ Last(messages').type = "error"
       /\ council[t].pc = "done" => council'[t] = council[t]]_vars

C4_Witness ==
  \E t \in Tasks :
    /\ council[t].failed
    /\ council[t].activeMode = "formal"
    /\ Len(council[t].calls) = 3
    /\ Len(messages) >= 4
    /\ Last(messages).type = "error"

ChatEntry(chatMsg) == Msg("chat", chatMsg.content, chatMsg.model_name)

(* the first submission, alone and never interrupted by startNewChat() *)
LoneChatRound(t) ==
  /\ t = 1
  /\ \A u \in Tasks \ {t} : council[u].pc = "idle"
  /\ \A l \in Loads : loads[l].pc = "idle"
  /\ torn[t] = ""
  /\ InFlight(t)
  /\ council[t].activeMode = "chat"

(* C5: in chat mode the N messages of run-all are appended one at a time in *)
(* server order: the round reads [user], [user, c1], ..., [user, c1..cN],   *)
(* never with a system, voting or chairman entry.                           *)
C5_ChatRevealInOrder ==
  [][/\ \A t \in Tasks :
          (council[t].pc = "revealWait"
             /\ council'[t].shown # council[t].shown) =>
            /\ council'[t].shown = council[t].shown + 1
            /\ council[t].batch = ChatBatch(Len(council[t].batch))
            /\ messages' =
                 Append(messages, ChatEntry(ChatMessage(council'[t].shown)))
     /\ \A t \in Tasks :
          (council'[t].activeMode = "chat" /\ ~council'[t].failed
             /\ council'[t].pc \in {"awaitFetch", "done"}) =>
            council'[t].shown = Len(council'[t].batch)
     /\ \A t \in Tasks :
          LoneChatRound(t)' =>
            messages' =
              <<Msg("user", council'[t].userQuestion, Null)>>
                \o ChatEntries(ChatBatch(council'[t].shown))]_vars

C5_Witness ==
  /\ LoneChatRound(1)
  /\ council[1].pc = "awaitFetch"
  /\ Len(council[1].batch) = 3
  /\ Len(messages) = 4
  /\ messages[4] = ChatEntry(ChatMessage(3))

(* C6: once startNewChat() has discarded the transcript during a pending    *)
(* reveal loop, that loop appends no further chat message.                  *)
C6_RevealCancelled ==
  [][\A t \in Tasks :
       torn[t] = "revealWait" =>
         ~(council[t].pc = "revealWait"
             /\ council'[t].shown > council[t].shown
             /\ Len(messages') > Len(messages))]_vars

Finishing(l) == loads[l].pc # "done" /\ loads'[l].pc = "done"

(* C7: loadSession records the timeout message exactly when the 30 s timer  *)
(* settled before the get-session call, and then only once the deadline has *)
(* elapsed; a call that fails first records the detail or generic message.  *)
C7_TimeoutIffTimerFirst ==
  [][\A l \in Loads :
       /\ Finishing(l) =>
            /\ sessionLoadError' = TimeoutMessage <=> loads'[l].first = "timer"
            /\ (loads'[l].first = "net" /\ loads'[l].net = "failed") =>
                 sessionLoadError' \in {ServiceDetail, GenericMessage}
            /\ (loads'[l].first = "net" /\ loads'[l].net = "ok") =>
                 sessionLoadError' = Null
       /\ (loads[l].first = "none" /\ loads'[l].first = "timer") =>
            /\ loads[l].elapsed >= LoadTimeoutMs
            /\ loads[l].net = "pending"
            /\ Finishing(l)
       /\ (loads[l].first = "none" /\ loads'[l].first = "net") =>
            loads[l].elapsed <= LoadTimeoutMs]_vars

C7_Witness ==
  \E l \in Loads :
    /\ loads[l].pc = "done"
    /\ loads[l].first = "timer"
    /\ loads[l].net = "pending"
    /\ sessionLoadError = TimeoutMessage

(* C8: a get-session call that settles after its deadline timer changes     *)
(* none of sessionId, messages, sessionLoadError, sidebarOpen and the       *)
(* loading flags.                                                           *)
C8_LateResultDiscarded ==
  [][\A l \in Loads :
       (loads[l].first = "timer" /\ loads[l].net = "pending"
          /\ loads'[l].net # "pending") =>
         UNCHANGED <<sessionId, messages, sessionLoadError, sidebarOpen,
                     loading, isLoadingSession>>]_vars

C8_Witness ==
  \E l \in Loads :
    /\ loads[l].first = "timer"
    /\ loads[l].net = "ok"
    /\ sessionLoadError = TimeoutMessage
    /\ sessionId # loads[l].id

(* C9: the loading flags stay asserted until the minimum display duration   *)
(* has elapsed since loadSession began.                                     *)
C9_FlagsHeldForFloor ==
  \A l \in Loads :
    (loads[l].pc # "idle" /\ loads[l].elapsed < minLoadingTime) =>
      (loading /\ isLoadingSession)

(* C10: startNewChat() clears sessionId, question, messages and loading,    *)
(* issues no remote call, and a second call changes nothing more.           *)
C10_NewChatIdempotent ==
  [][startNewChat =>
       /\ sessionId' = NoId
       /\ question' = ""
       /\ messages' = <<>>
       /\ loading' = FALSE
       /\ council' = council
       /\ loads' = loads
       /\ srv' = srv
       /\ NewChatState(Controller') = Controller']_vars

C10_Witness ==
  /\ torn[1] = "awaitReviews"
  /\ council[1].pc = "awaitReviews"
  /\ sessionId = NoId
  /\ messages = <<>>
  /\ ~loading

(* ----------------------------- projector ------------------------------- *)
ProjectedRound == doc.rounds[projected.round]

TypeAt(k) == projected.msgs[k].type

(* C15: two invocations of the projector on the same document yield the     *)
(* same message list, every field of every message equal, whenever they     *)
(* happen.                                                                  *)
C15_ProjectorDeterministic ==
  [][(projected.done /\ projected'.done
        /\ projected'.round = projected.round /\ doc' = doc) =>
       projected'.msgs = projected.msgs]_vars

VotingAt == {k \in DOMAIN projected.msgs : TypeAt(k) = "voting"}

IsResponseEntry(k) == TypeAt(k) \in {"council", "error"}

IsClosingEntry(k) ==
  \/ TypeAt(k) = "chairman"
  \/ TypeAt(k) = "system" /\ projected.msgs[k].content = DecidingText

C17_ChatOnlyChatEntries ==
  (projected.done /\ projected.round # 0
     /\ ProjectedRound.mode = "chat") =>
    /\ Len(projected.msgs) = 1 + Len(ProjectedRound.chat_messages)
    /\ TypeAt(1) = "user"
    /\ \A k \in 2..Len(projected.msgs) :
         /\ TypeAt(k) = "chat"
         /\ projected.msgs[k].content =
              ProjectedRound.chat_messages[k - 1].content
         /\ projected.msgs[k].modelName =
              ProjectedRound.chat_messages[k - 1].model_name

UserEntries == SelectSeq(projected.msgs, LAMBDA m : m.type = "user")

RECURSIVE Flatten(_)
Flatten(seqs) ==
  IF seqs = <<>> THEN <<>> ELSE Head(seqs) \o Flatten(Tail(seqs))

(* C18: a round projects to one user entry, placed first; a session of k    *)
(* rounds projects to the round projections joined in round order, so to k  *)
(* user entries of which the i-th carries the i-th question, and a session  *)
(* without rounds projects to the empty list.                               *)
C18_OneUserEntryPerRound ==
  /\ (projected.done /\ projected.round # 0) =>
       /\ TypeAt(1) = "user"
       /\ projected.msgs[1].content = ProjectedRound.question
       /\ Len(UserEntries) = 1
  /\ (projected.done /\ projected.round = 0) =>
       /\ Len(UserEntries) = Len(doc.rounds)
       /\ \A i \in 1..Len(doc.rounds) :
            UserEntries[i].content = doc.rounds[i].question
       /\ doc.rounds = <<>> => projected.msgs = <<>>
       /\ doc.rounds # <<>> =>
            projected.msgs =
              Flatten([i \in 1..Len(doc.rounds) |->
                         roundToMessagesAt(doc.rounds[i],
                                           projected.msgs[1].timestamp)])

C18_Witness ==
  /\ projected.done
  /\ projected.round = 0
  /\ Len(doc.rounds) = 2
  /\ doc.rounds[1].mode = "chat"
  /\ doc.rounds[2].mode = "formal"
  /\ Len(projected.msgs) = 11
  /\ TypeAt(4) = "user"
  /\ projected.msgs[4].content = "q2"

AnalysisFor(model_id) ==
  {k \in DOMAIN ProjectedRound.disagreement_analysis :
     ProjectedRound.disagreement_analysis[k].model_id = model_id}

(* C19: a formal projection holds one entry per response in server order:   *)
(* an error entry with the model name for a failed response, a council      *)
(* entry for a successful one, annotated with the disagreement item of the  *)
(* same model id, or with null when the round has none for that model.      *)
C19_ResponsesInOrder ==
  (projected.done /\ projected.round # 0
     /\ ProjectedRound.mode = "formal"
     /\ ProjectedRound.responses # <<>>) =>
    /\ Cardinality({k \in DOMAIN projected.msgs : IsResponseEntry(k)}) =
         Len(ProjectedRound.responses)
    /\ \A j \in 1..Len(ProjectedRound.responses) :
         LET resp == ProjectedRound.responses[j]
             entry == projected.msgs[2 + j]
         IN /\ entry.modelName = resp.model_name
            /\ IF resp.error # ""
                 THEN /\ entry.type = "error"
                      /\ entry.content = "Error: " \o resp.error
                 ELSE /\ entry.type = "council"
                      /\ entry.content = resp.response
                      /\ IF AnalysisFor(resp.model_id) = {}
                           THEN entry.disagreement = NoDisagreement
                           ELSE \E k \in AnalysisFor(resp.model_id) :
                                  entry.disagreement =
                                    ProjectedRound.disagreement_analysis[k]

C19_Witness ==
  /\ projected.done
  /\ projected.round # 0
  /\ ProjectedRound.mode = "formal"
  /\ Len(ProjectedRound.responses) = 3
  /\ ProjectedRound.disagreement_analysis = <<Analysis("c")>>
  /\ projected.msgs[3].disagreement = NoDisagreement
  /\ TypeAt(4) = "error"
  /\ projected.msgs[5].disagreement = Analysis("c")

(* ------------------------- model selection store ---------------------- *)
(* C20: toggleModel(m) leaves a selection that is exactly {m} as it is, and *)
(* otherwise removes m when it was selected and adds it when it was not.    *)
C20_ToggleKeepsFloor ==
  [][\A m \in ModelIds :
       toggleModel(m) =>
         IF Range(selectedModels) = {m}
           THEN selectedModels' = selectedModels
           ELSE IF m \in Range(selectedModels)
                  THEN Range(selectedModels') = Range(selectedModels) \ {m}
                  ELSE Range(selectedModels') = Range(selectedModels) \cup {m}]_vars

C20_Witness ==
  /\ lastToggle.called
  /\ lastToggle.prev = <<lastToggle.modelId>>
  /\ selectedModels = lastToggle.prev
  /\ Len(availableModels) > 1

(* ------------------------- metadata operations ------------------------- *)
ChatFields == <<sessionId, question, messages, loading, currentStep>>

FreshChatFields == <<NoId, "", <<>>, FALSE, "">>

(* the promise of operation o resolves in this step *)
Completes(o) ==
  /\ ops[o].pc # "done"
  /\ ops'[o].pc = "done"
  /\ ops'[o].outcome = "resolved"

(* C11: when deleteSession(id) completes for the active session, sessionId, *)
(* question, messages, loading and currentStep are what startNewChat()      *)
(* leaves; when it completes for another session they are unchanged.  The   *)
(* session counts as active when it is so both at the call and at the end.  *)
C11_DeleteActiveResets ==
  [][\A o \in Ops :
       (ops[o].op = "delete-session" /\ Completes(o)) =>
         /\ (ops[o].active = ops[o].id /\ sessionId = ops[o].id) =>
              ChatFields' = FreshChatFields
         /\ (ops[o].active # ops[o].id /\ sessionId # ops[o].id) =>
              ChatFields' = ChatFields]_vars

MetaCallOf(op) == Call(op.op, op.id)

ListSessionsCall == Call("list-sessions", NoId)

(* C12: deleteSession, renameSession, togglePinSession and                  *)
(* moveSessionToFolder issue one metadata call and, once it succeeded, one  *)
(* list-sessions call before they complete; the local session list only     *)
(* ever changes to the response of a list-sessions call.                    *)
C12_OneCallOneRefetch ==
  [][/\ \A o \in Ops :
          ops'[o].op \in SessionRefetchOps =>
            /\ ops'[o].calls # <<>>
            /\ IsPrefix(ops'[o].calls,
                        <<MetaCallOf(ops'[o]), ListSessionsCall>>)
            /\ ops'[o].failed => ops'[o].calls = <<MetaCallOf(ops'[o])>>
            /\ (ops'[o].pc = "done" /\ ~ops'[o].failed) =>
                 ops'[o].calls = <<MetaCallOf(ops'[o]), ListSessionsCall>>
     /\ sessions' # sessions =>
          /\ sessions' = ListSessions'
          /\ \E o \in Ops :
               ops[o].pc = "awaitSessions" /\ ops'[o].pc = "done"]_vars

C12_Witness ==
  \E o \in Ops :
    /\ ops[o].op = "pin-session"
    /\ ops[o].pc = "done"
    /\ ~ops[o].failed
    /\ Len(ops[o].calls) = 2
    /\ \E s \in sessions : s.id = ops[o].id /\ s.is_pinned

(* C13: shareSession and branchSession issue one metadata call and then a   *)
(* list-sessions call, so that the local catalog is a list-sessions         *)
(* response obtained after the metadata call when they complete.            *)
C13_ShareBranchRefetch ==
  [][\A o \in Ops :
       (ops'[o].op \in {"share-session"} \cup BranchOps
          /\ Completes(o) /\ ~ops'[o].failed) =>
         /\ ops'[o].calls = <<MetaCallOf(ops'[o]), ListSessionsCall>>
         /\ sessions' = ListSessions']_vars

HookOps == SessionRefetchOps \cup FolderRefetchOps \cup {"share-session"}

(* C14: when the remote call of a metadata operation of the hook fails, the *)
(* promise of the operation rejects.                                        *)
C14_FailureRejects ==
  \A o \in Ops :
    (ops[o].op \in HookOps /\ ops[o].failed) => ops[o].outcome = "rejected"

(* C21: when fetchModels succeeds, the selection in memory and the one in   *)
(* localStorage hold only ids of the returned catalog; when nothing was     *)
(* saved, or no saved id is in the catalog, both become all catalog ids.    *)
C21_RefreshPurgesSelection ==
  [][(modelsFetch = "pending" /\ modelsFetch' = "done") =>
       LET ids == ModelIdsOf(availableModels')
       IN /\ Range(selectedModels') \subseteq Range(ids)
          /\ storedModels'.present
          /\ Range(storedModels'.value) \subseteq Range(ids)
          /\ (~storedModels.present
                \/ Range(storedModels.value) \cap Range(ids) = {}) =>
               /\ selectedModels' = ids
               /\ storedModels'.value = ids]_vars

(* a refresh that kept part of a saved selection *)
C21_Witness ==
  /\ modelsFetch = "done"
  /\ lastToggle = NoToggle
  /\ selectedModels # <<>>
  /\ storedModels = Save(selectedModels)
  /\ Len(selectedModels) < Len(availableModels)
  /\ \E i \in DOMAIN availableModels :
       /\ availableModels[i].id \in Range(selectedModels)
       /\ ~availableModels[i].is_chairman
       /\ i > 1

(* the chairman's id alone, or the first catalog model's id when no model  *)
(* is flagged chairman                                                     *)
ChairmanOnly(models) ==
  IF \E i \in DOMAIN models : models[i].is_chairman
    THEN <<models[CHOOSE i \in DOMAIN models :
                    /\ models[i].is_chairman
                    /\ \A j \in DOMAIN models :
                         models[j].is_chairman => i <= j].id>>
    ELSE <<models[1].id>>

SelectAllStep == selectAlls' # selectAlls /\ selectAlls'.count > 0

(* C22: selectAllModels turns a selection holding every catalog id into the *)
(* chairman's id alone (the first model's id when there is no chairman) and *)
(* any other selection into the full catalog (an empty catalog stays an     *)
(* empty selection); two calls in a row with the catalog unchanged end in   *)
(* the full selection or in the chairman-only selection.                    *)
C22_SelectAllToggles ==
  [][SelectAllStep =>
       LET ids == ModelIdsOf(availableModels)
           full == Range(ids) \subseteq Range(selectedModels)
       IN /\ availableModels' = availableModels
          /\ (full /\ ids # <<>>) =>
               selectedModels' = ChairmanOnly(availableModels)
          /\ (~full \/ ids = <<>>) => selectedModels' = ids
          /\ (selectAlls'.count = 2 /\ ids # <<>>) =>
               selectedModels' \in {ids, ChairmanOnly(availableModels)}]_vars

(* two calls in a row: the first collapsed a full selection to a chairman   *)
(* that is not the first model, the second expanded it again                *)
C22_Witness ==
  /\ selectAlls.count = 2
  /\ Len(availableModels) > 1
  /\ selectedModels = ModelIdsOf(availableModels)
  /\ selectAlls.prev = ChairmanOnly(availableModels)
  /\ selectAlls.prev # <<availableModels[1].id>>

(* ---------------------------- incognito chat --------------------------- *)
(* C23: when an incognito submission has finished, a delete-session call    *)
(* was issued for every ephemeral session that was created, whichever way   *)
(* the submission went.                                                     *)
C23_EphemeralDeleted ==
  incognito.pc = "idle" =>
    \A id \in 1..ephemeral.created :
      \E i \in DOMAIN incognito.calls :
        incognito.calls[i] = Call("delete-session", id)

(* the display string the stated precedence gives *)
FirstMessage(detail) ==
  CASE detail.shape = "string" -> detail.text
    [] detail.shape = "list" ->
         IF detail.items[1].msg # "" THEN detail.items[1].msg
         ELSE detail.items[1].json
    [] detail.shape = "object" ->
         IF detail.obj.msg # "" THEN detail.obj.msg ELSE detail.obj.json
    [] OTHER -> IncognitoFallback

(* C24: the error entry handleSubmit appends carries the string the         *)
(* precedence gives: the string itself, else the first list item's message, *)
(* else the object's message, else the fallback.                            *)
C24_NormalizerPrecedence ==
  [][(incognito.pc \in {"awaitCreate", "awaitRunAll"}
        /\ incognito'.pc = "idle") =>
       /\ Last(incognito'.messages).type = "error"
       /\ Last(incognito'.messages).content
            = FirstMessage(incognito'.detail)]_vars

(* ------------------------------ session loads -------------------------- *)
(* C25: from the "could not load" view, startNewChat() leaves the fresh     *)
(* session state: sessionLoadError cleared, sessionId null, no messages.    *)
C25_RecoveryClearsLoadError ==
  [][(startNewChat /\ sessionLoadError # Null /\ ~isLoadingSession) =>
       /\ sessionLoadError' = Null
       /\ sessionId' = NoId
       /\ messages' = <<>>]_vars

(* loadSession l returns in this step *)
LoadReturns(l) == loads[l].pc # "done" /\ loads'[l].pc = "done"

LoadSucceeded(load) == load.first = "net" /\ load.net = "ok"

(* C26: a loadSession that succeeds leaves the sidebar closed, one that      *)
(* fails leaves sidebarOpen as it was.                                       *)
C26_LoadClosesSidebar ==
  [][\A l \in Loads :
       LoadReturns(l) =>
         IF LoadSucceeded(loads'[l]) THEN sidebarOpen' = FALSE
         ELSE sidebarOpen' = sidebarOpen]_vars

(* one load failed and left the sidebar open, another succeeded and the     *)
(* sidebar is closed                                                        *)
C26_Witness ==
  /\ \E l \in Loads :
       loads[l].pc = "done" /\ LoadSucceeded(loads[l])
         /\ messages = loads[l].loaded
  /\ \E l \in Loads :
       loads[l].pc = "done" /\ loads[l].first = "timer"
  /\ ~sidebarOpen

(* ----------------- metadata operations beside a submission ------------- *)
(* operation o takes a step *)
MetaStep(o) == ops'[o] # ops[o]

(* the operation targets a session other than the one its caller had active *)
OffActive(op) ==
  op.op \in SessionRefetchOps \cup {"share-session"} => op.active # op.id

(* C27: every step of a metadata operation on a session other than the      *)
(* active one, and of a folder operation, leaves question, messages,        *)
(* sessionId, loading and currentStep (and the submission in flight)        *)
(* unchanged; of the controller state it writes sessions and folders only.  *)
C27_MetadataLeavesChatAlone ==
  [][\A o \in Ops :
       (MetaStep(o) /\ OffActive(ops'[o])) =>
         /\ ChatFields' = ChatFields
         /\ council' = council
         /\ <<sidebarOpen, sessionLoadError, isLoadingSession, mode>>'
              = <<sidebarOpen, sessionLoadError, isLoadingSession, mode>>]_vars

(* a deleteSession of a listed session has completed while the submission   *)
(* that created the active session awaits its responses                     *)
C27_Witness ==
  /\ council[1].pc = "awaitResponses"
  /\ sessionId = council[1].sid
  /\ loading
  /\ messages # <<>>
  /\ ops[1].op = "delete-session"
  /\ ops[1].pc = "done"
  /\ ~ops[1].failed
  /\ ops[1].id # sessionId
  /\ ops[1].id \notin ListedIds

(* ------------------------- submissions, step by step ------------------- *)
GatheringMarker == Msg("system", GatheringText, Null)

DecidingMarker == Msg("system", DecidingText, Null)

Appended(entry) == messages' = Append(messages, entry)

(* submission t issues its gather-responses / synthesize call in this step *)
IssuesResponses(t) ==
  council[t].pc # "awaitResponses" /\ council'[t].pc = "awaitResponses"

IssuesSynthesize(t) ==
  council[t].pc # "awaitSynthesize" /\ council'[t].pc = "awaitSynthesize"

Shows(entry) == \E i \in DOMAIN messages : messages[i] = entry

Starts(t) == council[t].pc = "idle" /\ council'[t].pc # "idle"

(* the first submission in flight, with no other one and no startNewChat() *)
(* since it started                                                        *)
LoneRound(t) ==
  /\ t = 1
  /\ InFlight(t)
  /\ \A u \in Tasks \ {t} : council[u].pc = "idle"
  /\ \A l \in Loads : loads[l].pc = "idle"
  /\ torn[t] = ""

C30_ContinueTargetsCaptured ==
  [][\A t \in Tasks :
       /\ (Starts(t) /\ sessionId # NoId) =>
            council'[t].calls = <<Call("continue", sessionId)>>
       /\ Continued(t)' =>
            \A i \in 2..Len(council'[t].calls) :
              LET c == council'[t].calls[i]
              IN /\ c.op \notin {"continue", "create"}
                 /\ c.op # "list-sessions" => c.sid = council'[t].calls[1].sid]_vars

(* a continue-path submission has issued its synthesize call on the session *)
(* it started from after startNewChat() made sessionId null                 *)
C30_Witness ==
  \E t \in Tasks :
    /\ Continued(t)
    /\ Last(council[t].calls).op = "synthesize"
    /\ Last(council[t].calls).sid = council[t].calls[1].sid
    /\ sessionId # council[t].calls[1].sid

(* --------------------------- failed submissions ------------------------ *)
Fails(t) == council[t].pc \in ProtocolAwaits /\ council'[t].failed

(* C31: the error entry startCouncil appends when a call fails carries one  *)
(* display string as its content, whatever the shape of the error payload:  *)
(* a list or an object never reaches the content as it is.                  *)
C31_ErrorEntryIsString ==
  [][\A t \in Tasks :
       Fails(t) =>
         /\ Last(messages').type = "error"
         /\ council'[t].caught.shape \notin {"list", "object"}
         /\ Last(messages').content \in {ServiceDetail, NetworkErrorMessage}]_vars

(* ------------------------------- folders ------------------------------- *)
DeleteFolderCalls(op) ==
  <<Call("delete-folder", op.id), Call("list-folders", NoFolder),
    ListSessionsCall>>

(* C32: deleteFolder issues the delete-folder call, then, when it           *)
(* succeeded, the folder refetch and then the session refetch, and nothing  *)
(* else; none of its steps deletes a session: the delete call leaves every  *)
(* session of the folder in the catalog, detached, and the session refetch  *)
(* lists every session the service holds.                                   *)
C32_DeleteFolderDetaches ==
  [][\A o \in Ops :
       ops'[o].op = "delete-folder" =>
         /\ IsPrefix(ops'[o].calls, DeleteFolderCalls(ops'[o]))
         /\ (ops'[o].pc = "done" /\ ~ops'[o].failed) =>
              ops'[o].calls = DeleteFolderCalls(ops'[o])
         /\ MetaStep(o) => Existing' = Existing
         /\ (ops[o].pc = "awaitCall" /\ ~ops'[o].failed /\ MetaStep(o)) =>
              \A i \in Existing :
                catalog'[i].folder_id =
                  IF catalog[i].folder_id = ops[o].id THEN NoFolder
                  ELSE catalog[i].folder_id
         /\ (ops[o].pc = "awaitSessions" /\ MetaStep(o)) =>
              (sessions' = sessions \/ ListedIds' = Existing)]_vars

(* folder 1 was deleted and both refetches succeeded: session 2, which was  *)
(* in it, is still listed, without a folder                                 *)
C32_Witness ==
  \E o \in Ops :
    /\ ops[o].op = "delete-folder" /\ ops[o].pc = "done" /\ ~ops[o].failed
    /\ ops[o].calls = DeleteFolderCalls(ops[o])
    /\ ops[o].id = 1
    /\ 1 \notin folders
    /\ \E s \in sessions : s.id = 2 /\ s.folder_id = NoFolder

(* --------------------- incognito chat: late appends -------------------- *)
(* C33: once the modal was closed or the chat cleared while the reveal loop *)
(* of a round was pending, no chat message of that round is in the          *)
(* incognito transcript.                                                    *)
C33_NoLateAppend ==
  incognito.cleared =>
    \A i \in DOMAIN incognito.messages : incognito.messages[i].type # "chat"

(* ------------------------------ loading flag --------------------------- *)
(* C34: while a submission is in flight, from its first call to its         *)
(* completion, the reveal loop included, loading is true.                   *)
C34_LoadingWhileInFlight == \A t \in Tasks : InFlight(t) => loading

(* --------------------------- the active session ------------------------ *)
(* no startCouncil and no loadSession was invoked since startNewChat() last *)
(* ran: what is still running was in flight when it ran                     *)
NothingInvokedSince ==
  /\ \A t \in Tasks : council[t].pc \in {"idle", "done"} \/ torn[t] # ""
  /\ \A l \in Loads : loads[l].pc \in {"idle", "done"}

(* C35: after startNewChat() sessionId stays null until the next            *)
(* startCouncil or loadSession is invoked; the create-session response of a *)
(* submission that was in flight does not set it.                           *)
C35_NewChatStaysFresh ==
  [][(sessionId = NoId /\ NothingInvokedSince) => sessionId' = NoId]_vars

(* ---------------------------- racing loads ----------------------------- *)
(* C36: loadSession(a), then loadSession(b) before the first has settled:   *)
(* once both have settled, with both get-session calls answered, sessionId  *)
(* and messages are those of session b, in whatever order the answers came. *)
(* (Loads are invoked in the order of their numbers, and no other operation *)
(* runs here; two loads that follow one another end in the state of the     *)
(* second in any case.)                                                     *)
C36_LastLoadWins ==
  (/\ \A l \in Loads : loads[l].pc = "done" /\ LoadSucceeded(loads[l]))
    => /\ sessionId = loads[MaxLoads].id
       /\ messages = loads[MaxLoads].loaded

(* ------------------------ loads: id and transcript --------------------- *)
(* C37: loadSession updates sessionId and messages together: in no state is *)
(* sessionId already the id of the session a load is fetching while         *)
(* messages are not yet the transcript of that session.                     *)
C37_IdAndTranscriptTogether ==
  \A l \in Loads :
    (loads[l].pc \notin {"idle", "done"} /\ sessionId = loads[l].id)
      => messages = loadedMessages(srv[loads[l].id])

(* ------------------------- live and reloaded view ---------------------- *)
(* what two entries are compared on; a model name that is null and one that *)
(* is absent both stand for no model name                                   *)
Shown(m) ==
  [type |-> m.type, content |-> m.content,
   modelName |-> IF m.modelName = Undefined THEN Null ELSE m.modelName]

ShownAll(msgs) == [i \in DOMAIN msgs |-> Shown(msgs[i])]

(* a first submission, and the only one, finished with every call answered *)
CompletedAlone(t) ==
  /\ council[t].pc = "done" /\ ~council[t].failed
  /\ torn[t] = ""
  /\ \A u \in Tasks \ {t} : council[u].pc = "idle"
  /\ \A l \in Loads : loads[l].pc = "idle"

(* C38: when a round has completed with every call answered, the entries    *)
(* startCouncil appended live are, in type, model name and content, those   *)
(* roundToMessages gives for the final round document of the service.       *)
C38_LiveEqualsReloaded ==
  \A t \in Tasks :
    CompletedAlone(t) =>
      ShownAll(messages) = ShownAll(roundToMessages(Last(srv[council[t].sid])))

(* ------------------------------ termination ---------------------------- *)
Returns(t) == InFlight(t) /\ council'[t].pc = "done"

(* C39: if every remote call settles, every startCouncil and every          *)
(* loadSession invocation finishes, whether its calls are answered or       *)
(* rejected, and the step that finishes it leaves loading false and         *)
(* currentStep empty.                                                       *)
C39_EveryInvocationFinishes ==
  /\ \A t \in Tasks : InFlight(t) ~> council[t].pc = "done"
  /\ \A l \in Loads : (loads[l].pc \notin {"idle", "done"}) ~> loads[l].pc = "done"
  /\ [][\A t \in Tasks : Returns(t) => (~loading' /\ currentStep' = "")]_vars
  /\ [][\A l \in Loads : LoadReturns(l) => (~loading' /\ currentStep' = "")]_vars

(* a submission that failed and a load that timed out have both finished *)
C39_Witness ==
  /\ council[1].pc = "done" /\ council[1].failed
  /\ loads[1].pc = "done" /\ loads[1].first = "timer"
  /\ ~loading /\ currentStep = ""

(* ------------------------------- pinning ------------------------------- *)
(* an invocation of togglePinSession(id) whose patch call was accepted and  *)
(* which has returned                                                       *)
PinToggled(o, id) ==
  /\ ops[o].op = "pin-session" /\ ops[o].id = id
  /\ ops[o].pc = "done" /\ ~ops[o].failed

(* C40: two togglePinSession(id) calls on one session, the only operations  *)
(* run, leave its pin flag on the service as it was at first (unpinned),    *)
(* however their patch and refetch steps interleave.                        *)
C40_TwoTogglesRestore ==
  \A id \in Ids :
    (\A o \in Ops : PinToggled(o, id)) => ~catalog[id].is_pinned

====
